---- MODULE Spec2Model ----
(***************************************************************************)
(* A model of the UN-session extraction scripts:                           *)
(*   Count UN Session Attendance/count.py              (segmenter, chain)  *)
(*   Count UN Session Attendance/extract_delegates.py  (OpenAI extractor)  *)
(*   Extract Tables/extract_contributions.py           (table extraction)  *)
(*   Extract Tables/combine_contributions.py           (sheet merging)     *)
(*                                                                         *)
(* A Python str is a sequence of one-character strings, so that strip,     *)
(* splitlines, the regular expressions and the substring tests are         *)
(* computed character by character.  None and '' are both the empty        *)
(* sequence wherever the code only tests truthiness; a JSON null in the    *)
(* place of a list of names is the value Null, which is no list.  The      *)
(* inference calls check no type: leader_present is one of the tokens      *)
(* True, False, None and StrYes, a null country is NoneStr, a number in    *)
(* the place of a list of names is Int5 and a number year is IntOf(digits).*)
(***************************************************************************)
EXTENDS Integers, Sequences, FiniteSets, TLC

VARIABLES
  \* split_text_by_country (count.py)
  text,            \* the argument: the raw text of one document
  seg_chunks,      \* the returned list of (country, body) pairs
  seg_pc,          \* "idle" | "ready" | "done"
  \* the two delegation pipelines (count.py main, extract_delegates.py)
  prog,            \* "none" | "count" (count.py main) | "delegates"
                   \* (extract_delegates.py main) | "folder" (process_pdf_folder)
  pdf_files,       \* the files still to process, in processing order
  years,           \* process_years_from_text_files: the years still to process
  txt_files,       \* the files of the txt folder: path to text and readability
  pc,              \* "idle" | "loop" | "extract" | "done" | "crashed"
  year,            \* the year derived from the current file's name
  chunks,          \* chunks (count.py) / countries_data (extract_delegates.py)
  i,               \* 1-based index of the next chunk to extract
  result,          \* what the structured-inference call returned last
  sessions,        \* sessions (count.py) / delegations (extract_delegates.py)
  all_sessions,    \* all_sessions / all_delegations
  export,          \* the rows of the saved workbook, in order
  details,         \* save_detailed_json: the objects of the saved JSON file
  \* the numeric normalizers (clean_numeric_value, clean_numeric)
  num_input,       \* the cell value given to the normalizer
  num_result,      \* what it returned
  num_pc,          \* "idle" | "ready" | "clean_numeric_value" | "clean_numeric"
  \* find_contribution_columns (extract_contributions.py)
  columns,         \* df.columns: the headers of the table
  col_year,        \* the year argument
  column_mapping,  \* the returned mapping
  col_pc,          \* "idle" | "ready" | "done"
  \* extract_contributions_data / combine_contributions.process_file
  cprog,           \* "none" | "extract" | "combine": which script runs
  c_year,          \* the year of the document
  tables,          \* the tables (extract) or sheets (combine) of the document
  table_idx,       \* 1-based index of the next table
  new_records,     \* the records the last table processed has added
  all_data,        \* all_data (extract) / the concatenated tables (combine)
  c_raised,        \* an exception has left extract_contributions_data
  m_files,         \* process_all_pdfs: pdf_files, sorted
  m_idx,           \* 1-based index of the next document
  m_all,           \* all_contributions_data
  merged,          \* the rows of the merged workbook, in order
  m_pc,             \* where process_all_pdfs is
  key_input,       \* normalize_country: the name given
  key_result,      \* what it returned
  key_pc,           \* "idle" | "ready" | "done"
  contributions,   \* append_contributions_to_country_files: the rows of the contributions file
  country_files,   \* the rows of each file of the country folder, as read
  file_idx,        \* 1-based index of the next file of the folder
  saved_files,     \* for each file updated so far, the rows written back, or that it failed
  fill_pc,          \* "idle" | "loop" | "done"
  yr_prog,         \* which script derives the year: "none" | "count" | "delegates" | "combine"
  yr_folder,       \* the folder the file is in
  yr_file,         \* the name of the file
  yr_result,       \* the year derived
  yr_pc,            \* "idle" | "ready" | "done"
  o_files,         \* the two runs: the files each has still to read, in its listing's order
  o_results,       \* what the chain returns for each chunk of each document, in both runs
  o_all,           \* the two runs: all_sessions
  o_export,        \* the two runs: the rows written
  o_pc,             \* the two runs: loop, done, crashed
  text_cache,      \* extract_text_from_pdf: the files of the text_cache folder, name to content
  pdf_path,        \* the path given to the last call
  returned,        \* what the last call returned
  read_ok,         \* whether the last call could read the cache file, if there was one
  parse_result,    \* what the parser gave the last call: none, raise, results
  parse_called,    \* whether the last call invoked the document parser
  cache_pc         \* idle, ready, called

segVars     == <<text, seg_chunks, seg_pc>>
inputVars   == <<prog, txt_files>>
pipeVars    == <<inputVars, pdf_files, years, pc, year, chunks, i, result, sessions,
                 all_sessions, export, details>>
numVars     == <<num_input, num_result, num_pc>>
colVars     == <<columns, col_year, column_mapping, col_pc>>
contribVars == <<cprog, c_year, tables, table_idx, new_records, all_data,
                 c_raised>>
mergeVars   == <<m_files, m_idx, m_all, merged, m_pc>>
keyVars == <<key_input, key_result, key_pc>>
fillVars == <<contributions, country_files, file_idx, saved_files, fill_pc>>
yearVars == <<yr_prog, yr_folder, yr_file, yr_result, yr_pc>>
orderVars == <<o_files, o_results, o_all, o_export, o_pc>>
callVars == <<pdf_path, read_ok, parse_result, returned, parse_called, cache_pc>>
cacheVars == <<text_cache, callVars>>
vars        == <<segVars, pipeVars, numVars, colVars, contribVars, mergeVars, keyVars, fillVars, yearVars, orderVars, cacheVars>>

\* everything but the state of one component
nonSegVars     == <<pipeVars, numVars, colVars, contribVars, mergeVars, keyVars, fillVars, yearVars, orderVars, cacheVars>>
nonPipeVars    == <<segVars, numVars, colVars, contribVars, mergeVars, keyVars, fillVars, yearVars, orderVars, cacheVars>>
\* everything but the pipelines and the files of the text_cache folder
nonPipeDirVars == <<segVars, numVars, colVars, contribVars, mergeVars, keyVars, fillVars, yearVars, orderVars, callVars>>
nonNumVars     == <<segVars, pipeVars, colVars, contribVars, mergeVars, keyVars, fillVars, yearVars, orderVars, cacheVars>>
nonColVars     == <<segVars, pipeVars, numVars, contribVars, mergeVars, keyVars, fillVars, yearVars, orderVars, cacheVars>>
nonContribVars == <<segVars, pipeVars, numVars, colVars, mergeVars, keyVars, fillVars, yearVars, orderVars, cacheVars>>
nonMergeVars == <<segVars, pipeVars, numVars, colVars, contribVars, keyVars, fillVars, yearVars, orderVars, cacheVars>>
nonKeyVars == <<segVars, pipeVars, numVars, colVars, contribVars, mergeVars, fillVars, yearVars, orderVars, cacheVars>>
nonFillVars == <<segVars, pipeVars, numVars, colVars, contribVars, mergeVars, keyVars, yearVars, orderVars, cacheVars>>
nonYearVars == <<segVars, pipeVars, numVars, colVars, contribVars, mergeVars, keyVars, fillVars, orderVars, cacheVars>>
nonOrderVars == <<segVars, pipeVars, numVars, colVars, contribVars, mergeVars, keyVars, fillVars, yearVars, cacheVars>>
nonCacheVars == <<segVars, pipeVars, numVars, colVars, contribVars, mergeVars, keyVars, fillVars, yearVars, orderVars>>

-----------------------------------------------------------------------------
(* Bounds of the model *)

\* longest text, in lines, given to the segmenter
MaxLines == 4

\* most session objects in one result of the extraction chain
MaxSessions == 2

\* longest cell value, in characters, given to the numeric normalizers
MaxNumLen == 3

\* most columns of a table given to find_contribution_columns
MaxCols == 3

\* most rows of a contribution table or sheet
MaxRows == 2

\* the most documents in docs/ given to process_all_pdfs
MaxDocs == 3

\* longest country name, in code points, given to normalize_country
MaxNameLen == 3

\* the most files in the country folder
MaxFiles == 2

\* longest file name, in characters, whose year is derived
MaxFileLen == 5
\* results the document parser returns for one document, at most
MaxResults == 1

\* the characters a failed write of the cache file may leave in it (at most)
MaxKept == 2

-----------------------------------------------------------------------------
(* Characters and str methods *)

UpperSeq == <<"A","B","C","D","E","F","G","H","I","J","K","L","M",
              "N","O","P","Q","R","S","T","U","V","W","X","Y","Z">>
LowerSeq == <<"a","b","c","d","e","f","g","h","i","j","k","l","m",
              "n","o","p","q","r","s","t","u","v","w","x","y","z">>
DigitSeq == <<"0","1","2","3","4","5","6","7","8","9">>

Range(s) == { s[k] : k \in DOMAIN s }

IsUpper(c) == c \in Range(UpperSeq)
IsDigit(c) == c \in Range(DigitSeq)
\* the whitespace str.strip() removes and \s matches (those that occur here)
IsSpace(c) == c \in {" ", "\t", "\n"}

\* str.lower()
lower_char(c) ==
  IF IsUpper(c) THEN LowerSeq[CHOOSE k \in DOMAIN UpperSeq : UpperSeq[k] = c]
  ELSE c

lower(str) == [k \in DOMAIN str |-> lower_char(str[k])]

IsLower(c) == c \in Range(LowerSeq)

\* str.upper() on one character
upper_char(c) ==
  IF IsLower(c) THEN UpperSeq[CHOOSE k \in DOMAIN LowerSeq : LowerSeq[k] = c]
  ELSE c

\* str.title(): a letter that follows no letter is put in upper case, a
\* letter that follows a letter in lower case
title(str) ==
  [k \in DOMAIN str |->
     IF k > 1 /\ (IsUpper(str[k - 1]) \/ IsLower(str[k - 1]))
     THEN lower_char(str[k]) ELSE upper_char(str[k])]

NL == "\n"
CR == "\r"

\* f.read() on a file opened with open(path, 'r', encoding='utf-8'): text
\* mode with universal newlines, so a carriage return, alone or before a
\* line feed, is read as one line feed.  (f.write in text mode writes a line
\* feed as os.linesep, a line feed on POSIX: the file holds what was written.)
RECURSIVE read_text(_)
read_text(content) ==
  IF content = <<>> THEN <<>>
  ELSE IF Head(content) = CR
  THEN <<NL>> \o read_text(IF Len(content) >= 2 /\ content[2] = NL
                           THEN Tail(Tail(content)) ELSE Tail(content))
  ELSE <<Head(content)>> \o read_text(Tail(content))

\* Python truthiness of a str, a list or None
Truthy(v) == v # <<>>

RECURSIVE lstrip(_)
lstrip(s) == IF s # <<>> /\ IsSpace(Head(s)) THEN lstrip(Tail(s)) ELSE s

RECURSIVE rstrip(_)
rstrip(s) == IF s # <<>> /\ IsSpace(s[Len(s)])
             THEN rstrip(SubSeq(s, 1, Len(s) - 1)) ELSE s

\* str.strip()
strip(s) == rstrip(lstrip(s))

\* index of the first occurrence of sub in s at or after position k, 0 if none
RECURSIVE FindFrom(_, _, _)
FindFrom(s, sub, k) ==
  IF k + Len(sub) - 1 > Len(s) THEN 0
  ELSE IF SubSeq(s, k, k + Len(sub) - 1) = sub THEN k
  ELSE FindFrom(s, sub, k + 1)

\* the Python test `sub in s`
Contains(s, sub) == FindFrom(s, sub, 1) # 0

\* str.splitlines(): a final line terminator opens no further line
RECURSIVE splitlines(_)
splitlines(s) ==
  LET k == FindFrom(s, <<NL>>, 1)
  IN  IF s = <<>> THEN <<>>
      ELSE IF k = 0 THEN <<s>>
      ELSE <<SubSeq(s, 1, k - 1)>> \o splitlines(SubSeq(s, k + 1, Len(s)))

\* "\n".join(lines)
RECURSIVE JoinLines(_)
JoinLines(lines) ==
  IF lines = <<>> THEN <<>>
  ELSE IF Len(lines) = 1 THEN lines[1]
  ELSE lines[1] \o <<NL>> \o JoinLines(Tail(lines))

-----------------------------------------------------------------------------
(* count.py: split_text_by_country *)

CommentMarker == <<"<", "!", "-", "-">>

\* re.split(r'<!--', line)[0].strip()
line_clean_of(line) ==
  LET k == FindFrom(line, CommentMarker, 1)
  IN  strip(IF k = 0 THEN line ELSE SubSeq(line, 1, k - 1))

\* the characters the heading pattern allows after the first one
HeadingChar(c) == IsUpper(c) \/ IsSpace(c) \/ c \in {"-", "&", ",", "'", "."}

\* a pattern that lets any of the allowed characters come first
heading_match_any_first(line_clean) ==
  /\ \E k \in DOMAIN line_clean : IsUpper(line_clean[k])
  /\ \A k \in DOMAIN line_clean : HeadingChar(line_clean[k])

\* re.match(r'^[A-Z][A-Z\s\-&,\'\.]*$', line_clean)
heading_match(line_clean) ==
  /\ line_clean # <<>>
  /\ IsUpper(line_clean[1])
  /\ \A k \in 2..Len(line_clean) : HeadingChar(line_clean[k])

\* a segmenter that also flushes the lines met before the first heading
flush_on_heading_always(current_country) == TRUE

\* the test that flushes the open chunk when a new heading is met
flush_on_heading(current_country) == Truthy(current_country)

\* a segmenter that forgets the chunk still open at the end of the text
flush_at_end_never(current_country, current_text_lines) == FALSE

\* the test that flushes the open chunk at the end of the text
flush_at_end(current_country, current_text_lines) ==
  Truthy(current_country) /\ Truthy(current_text_lines)

\* a segmenter that does not empty current_text_lines at a new heading
RECURSIVE split_loop_no_reset(_, _, _, _)
split_loop_no_reset(lines, acc, current_country, current_text_lines) ==
  IF lines = <<>>
  THEN IF flush_at_end(current_country, current_text_lines)
       THEN Append(acc, <<current_country, JoinLines(current_text_lines)>>)
       ELSE acc
  ELSE LET line       == strip(Head(lines))
           line_clean == line_clean_of(line)
       IN  IF ~Truthy(line)
           THEN split_loop_no_reset(Tail(lines), acc, current_country,
                                    current_text_lines)
           ELSE IF heading_match(line_clean)
           THEN split_loop_no_reset(Tail(lines),
                           IF flush_on_heading(current_country)
                           THEN Append(acc, <<current_country,
                                              JoinLines(current_text_lines)>>)
                           ELSE acc,
                           line_clean, current_text_lines)
           ELSE split_loop_no_reset(Tail(lines), acc, current_country,
                                    Append(current_text_lines, line))

\* the loop over text.splitlines() and the flush that follows it
RECURSIVE split_loop(_, _, _, _)
split_loop(lines, acc, current_country, current_text_lines) ==
  IF lines = <<>>
  THEN IF flush_at_end(current_country, current_text_lines)
       THEN Append(acc, <<current_country, JoinLines(current_text_lines)>>)
       ELSE acc
  ELSE LET line       == strip(Head(lines))
           line_clean == line_clean_of(line)
       IN  IF ~Truthy(line)
           THEN split_loop(Tail(lines), acc, current_country, current_text_lines)
           ELSE IF heading_match(line_clean)
           THEN split_loop(Tail(lines),
                           IF flush_on_heading(current_country)
                           THEN Append(acc, <<current_country,
                                              JoinLines(current_text_lines)>>)
                           ELSE acc,
                           line_clean, <<>>)
           ELSE split_loop(Tail(lines), acc, current_country,
                           Append(current_text_lines, line))

split_text_by_country(t) == split_loop(splitlines(t), <<>>, <<>>, <<>>)

-----------------------------------------------------------------------------
(* Dictionaries, file names and years *)

\* d[k] = v on a Python dict: the key is added when it is missing
SetKey(d, k, v) == [x \in (DOMAIN d) \cup {k} |-> IF x = k THEN v ELSE d[x]]

\* the characters of the model in code-point order
CharOrder == <<"\t", "\n", " ", "!", "&", "'", ",", "-", ".", "/">> \o DigitSeq
             \o <<"<", ">">> \o UpperSeq \o <<"_">> \o LowerSeq

CharCode(c) == CHOOSE k \in DOMAIN CharOrder : CharOrder[k] = c

\* a < b on two Python str
RECURSIVE StrLess(_, _)
StrLess(a, b) ==
  IF b = <<>> THEN FALSE
  ELSE IF a = <<>> THEN TRUE
  ELSE IF Head(a) = Head(b) THEN StrLess(Tail(a), Tail(b))
  ELSE CharCode(Head(a)) < CharCode(Head(b))

\* re.search(r'(\d{4})', s): where the first run of four digits starts, 0 if none
RECURSIVE FourDigitsFrom(_, _)
FourDigitsFrom(s, k) ==
  IF k + 3 > Len(s) THEN 0
  ELSE IF \A d \in 0..3 : IsDigit(s[k + d]) THEN k
  ELSE FourDigitsFrom(s, k + 1)

NA      == <<"N","A">>
Unknown == <<"U","n","k","n","o","w","n">>

\* count.py: get_year_from_filename
get_year_from_filename(filename) ==
  LET k == FourDigitsFrom(filename, 1)
  IN  IF k = 0 THEN NA ELSE SubSeq(filename, k, k + 3)

\* os.path.basename
RECURSIVE basename(_)
basename(path) ==
  LET k == FindFrom(path, <<"/">>, 1)
  IN  IF k = 0 THEN path ELSE basename(SubSeq(path, k + 1, Len(path)))

\* os.path.join(folder_path, pdf_file)
path_join(folder, file) == folder \o <<"/">> \o file

\* extract_delegates.py: _extract_year_from_filename
extract_year_from_filepath(filepath) ==
  LET filename == basename(filepath)
      k        == FourDigitsFrom(filename, 1)
  IN  IF k = 0 THEN Unknown ELSE SubSeq(filename, k, k + 3)

-----------------------------------------------------------------------------
(* Lines and texts given to the segmenter *)

LnFrance   == <<"F","R","A","N","C","E">>
LnGermany  == <<"G","E","R","M","A","N","Y">>
\* "COTE D'IVOIRE <!-- p1 -->": a heading followed by a comment
LnIvoire   == <<"C","O","T","E"," ","D","'","I","V","O","I","R","E"," ",
                "<","!","-","-"," ","p","1"," ","-","-",">">>
\* "Mr. A": a body line
LnMrA      == <<"M","r","."," ","A">>
\* "  Ms. B ": a body line with surrounding whitespace
LnMsB      == <<" "," ","M","s","."," ","B"," ">>
\* "<!-- x -->": a comment alone on its line
LnComment  == <<"<","!","-","-"," ","x"," ","-","-",">">>
\* "   ": a blank line
LnBlank    == <<" "," "," ">>
\* "-AB": capitals after a leading hyphen
LnDashAB   == <<"-","A","B">>
\* "A1": a capital and a digit
LnA1       == <<"A","1">>
\* "SRI  LANKA": a heading whose words are two spaces apart
LnSriLanka == <<"S","R","I"," "," ","L","A","N","K","A">>

SegLines == { LnFrance, LnGermany, LnIvoire, LnMrA, LnMsB, LnComment,
              LnBlank, <<>>, LnDashAB, LnA1, LnSriLanka }

SeqsUpTo(S, n) == UNION { [1..m -> S] : m \in 0..n }

SegTexts == { JoinLines(ls) : ls \in SeqsUpTo(SegLines, MaxLines) }

-----------------------------------------------------------------------------
(* The segmenter applied to one text *)

SegIdle == text = <<>> /\ seg_chunks = <<>> /\ seg_pc = "idle"

PipeIdle ==
  /\ prog = "none" /\ pdf_files = <<>> /\ years = <<>> /\ txt_files = <<>>
  /\ pc = "idle" /\ year = <<>>
  /\ chunks = <<>> /\ i = 1 /\ result = [kind |-> "none"]
  /\ sessions = <<>> /\ all_sessions = <<>> /\ export = <<>> /\ details = <<>>

NumIdle == num_input = <<>> /\ num_result = <<>> /\ num_pc = "idle"

ColIdle ==
  /\ columns = <<>> /\ col_year = 0 /\ column_mapping = <<>> /\ col_pc = "idle"

ContribIdle ==
  /\ cprog = "none" /\ c_year = 0 /\ tables = <<>> /\ table_idx = 1
  /\ new_records = <<>> /\ all_data = <<>> /\ c_raised = FALSE

MergeIdle ==
  /\ m_files = <<>> /\ m_idx = 1 /\ m_all = <<>> /\ merged = <<>>
  /\ m_pc = "idle"

KeyIdle == key_input = <<>> /\ key_result = <<>> /\ key_pc = "idle"

FillIdle ==
  /\ contributions = <<>> /\ country_files = <<>> /\ file_idx = 1
  /\ saved_files = <<>> /\ fill_pc = "idle"

YearIdle ==
  /\ yr_prog = "none" /\ yr_folder = <<>> /\ yr_file = <<>>
  /\ yr_result = <<>> /\ yr_pc = "idle"

OrderIdle ==
  /\ o_files = <<>> /\ o_results = <<>> /\ o_all = <<>>
  /\ o_export = <<>> /\ o_pc = "idle"

CallIdle ==
  /\ pdf_path = <<>> /\ returned = <<>>
  /\ read_ok = TRUE /\ parse_result = [kind |-> "none"]
  /\ parse_called = FALSE /\ cache_pc = "idle"

CacheIdle == text_cache = <<>> /\ CallIdle

InitSeg ==
  /\ text \in SegTexts
  /\ seg_chunks = <<>>
  /\ seg_pc = "ready"
  /\ PipeIdle /\ NumIdle /\ ColIdle /\ ContribIdle /\ MergeIdle /\ KeyIdle /\ FillIdle /\ YearIdle /\ OrderIdle /\ CacheIdle

Segment ==
  /\ seg_pc = "ready"
  /\ seg_chunks' = split_text_by_country(text)
  /\ seg_pc' = "done"
  /\ UNCHANGED <<text, nonSegVars>>

NextSeg == Segment

SpecSeg == InitSeg /\ [][NextSeg]_vars

-----------------------------------------------------------------------------
(* Numbers: float() and str() on the strings the normalizers produce *)

\* a float is <<m, e>>, standing for m * 10^-e with no trailing zero digit
\* in the fraction; NaN (and a float() that raises) is the empty tuple
NaN == <<>>

RECURSIVE Pow10(_)
Pow10(n) == IF n = 0 THEN 1 ELSE 10 * Pow10(n - 1)

RECURSIVE DecNorm(_, _)
DecNorm(m, e) ==
  IF m = 0 THEN <<0, 0>>
  ELSE IF e > 0 /\ m % 10 = 0 THEN DecNorm(m \div 10, e - 1)
  ELSE <<m, e>>

\* a + b on two floats
DecAdd(a, b) ==
  LET e == IF a[2] > b[2] THEN a[2] ELSE b[2]
  IN  DecNorm(a[1] * Pow10(e - a[2]) + b[1] * Pow10(e - b[2]), e)

DigitValue(c) == (CHOOSE k \in DOMAIN DigitSeq : DigitSeq[k] = c) - 1

RECURSIVE DigitsToInt(_)
DigitsToInt(ds) ==
  IF ds = <<>> THEN 0
  ELSE 10 * DigitsToInt(SubSeq(ds, 1, Len(ds) - 1)) + DigitValue(ds[Len(ds)])

RECURSIVE IntToDigits(_)
IntToDigits(n) ==
  IF n < 10 THEN <<DigitSeq[n + 1]>>
  ELSE IntToDigits(n \div 10) \o <<DigitSeq[(n % 10) + 1]>>

RECURSIVE ZeroPad(_, _)
ZeroPad(ds, width) == IF Len(ds) >= width THEN ds ELSE ZeroPad(<<"0">> \o ds, width)

\* whether float(s) accepts s, a str of digits, dots and minus signs
float_accepts(s) ==
  LET body == IF s # <<>> /\ s[1] = "-" THEN Tail(s) ELSE s
  IN  /\ \A k \in DOMAIN body : body[k] # "-"
      /\ Cardinality({k \in DOMAIN body : body[k] = "."}) <= 1
      /\ \E k \in DOMAIN body : IsDigit(body[k])

\* float(s); NaN stands for the ValueError
float_of(s) ==
  IF ~float_accepts(s) THEN NaN
  ELSE LET neg  == s[1] = "-"
           body == IF neg THEN Tail(s) ELSE s
           dot  == FindFrom(body, <<".">>, 1)
           m    == DigitsToInt(SelectSeq(body, IsDigit))
       IN  DecNorm(IF neg THEN 0 - m ELSE m,
                   IF dot = 0 THEN 0 ELSE Len(body) - dot)

\* str(x) of a float in the range where repr uses no exponent
float_str(x) ==
  LET neg  == x[1] < 0
      mag  == IF neg THEN 0 - x[1] ELSE x[1]
      whole == IntToDigits(mag \div Pow10(x[2]))
      frac  == IF x[2] = 0 THEN <<"0">>
               ELSE ZeroPad(IntToDigits(mag % Pow10(x[2])), x[2])
  IN  (IF neg THEN <<"-">> ELSE <<>>) \o whole \o <<".">> \o frac

-----------------------------------------------------------------------------
(* Documents, and what the external services may return *)

LnItaly    == <<"I","T","A","L","Y">>
FileUn2005 == <<"u","n","2","0","0","5",".","p","d","f">>
FileReport == <<"r","e","p","o","r","t",".","p","d","f">>
FileX1999  == <<"x","1","9","9","9",".","p","d","f">>

\* the documents of the folder: file name and the text its parse yields
Doc3Chunks == [filename |-> FileUn2005,
               text |-> JoinLines(<<LnFrance, LnMrA, LnGermany, LnMsB,
                                    LnItaly, LnMrA>>)]
Doc1Chunk  == [filename |-> FileReport,
               text |-> JoinLines(<<LnMrA, LnFrance, LnMrA>>)]
DocEmpty   == [filename |-> FileX1999, text |-> <<>>]

Docs == { Doc3Chunks, Doc1Chunk, DocEmpty }

IsPermutationOfSubset(fs) ==
  /\ \A a, b \in DOMAIN fs : a # b => fs[a] # fs[b]

\* os.listdir(folder): any subset of the documents, in any order
Listings == { fs \in SeqsUpTo(Docs, Cardinality(Docs)) : IsPermutationOfSubset(fs) }

\* pdf_files.sort()
IsSortedListing(fs) ==
  \A a, b \in DOMAIN fs : a < b => StrLess(fs[a].filename, fs[b].filename)

\* the folder extract_delegates.py is pointed at
FolderPath == <<"p","d","f","s","2","0","2","4">>

NameA == <<"A">>
NameB == <<"B">>
NameC == <<"C">>
NameD == <<"D">>

\* a country and a year the inference call may put in its object
OtherCountry == <<"S","P","A","I","N">>
LLMYear      == <<"1","9","9","9">>

\* the values of leader_present: the two booleans of json.loads, None for
\* a JSON null, and a str
True    == "True"
False   == "False"
None    == "None"
StrYes  == "'yes'"

\* JSON null, None once loaded, in the place of a list of names: a value
\* that is no list
Null == << <<"null">> >>

\* None in the place of a str, a number in the place of a list of names,
\* a number in the place of a str of digits
NoneStr   == <<"None">>
Int5      == << <<"int", "5">> >>
IntOf(ds) == <<"int">> \o ds
IsInt(v)  == v # <<>> /\ v[1] = "int"

\* count.py: session objects the chain may return for a chunk
ChainSessionFull ==
  [country |-> OtherCountry, year |-> LLMYear,
   officials |-> <<NameA>>, representatives |-> <<NameB, NameC>>,
   alternate_representatives |-> <<>>, advisers |-> <<NameD>>,
   leader_present |-> True, attendees |-> 9]

\* an object that lacks three of the name lists and the year
ChainSessionPartial(country) ==
  [country |-> country, officials |-> <<NameA>>, leader_present |-> False]

\* an item of the returned list that is not a JSON object
NonDict == [nondict |-> TRUE]

IsDict(item) == "nondict" \notin DOMAIN item

ChainSessions(country) == { ChainSessionFull, ChainSessionPartial(country) }

\* objects whose values have not the type the prompt asks for: the chain
\* parses JSON and checks no type
ChainSessionNullLeader(country) ==
  [country |-> country, year |-> LLMYear, officials |-> <<NameA>>,
   representatives |-> <<>>, alternate_representatives |-> <<>>,
   advisers |-> <<>>, leader_present |-> None]

ChainSessionYes(country) ==
  [country |-> country, officials |-> <<NameA>>, leader_present |-> StrYes]

ChainSessionNullCountry ==
  [country |-> NoneStr, officials |-> <<NameA>>, leader_present |-> True]

ChainSessionNullList(country) ==
  [country |-> country, officials |-> Null, representatives |-> <<NameB>>,
   leader_present |-> True]

ChainSessionIntList(country) ==
  [country |-> country, officials |-> Int5, leader_present |-> False]

ChainSessionsIllTyped(country) ==
  { ChainSessionNullLeader(country), ChainSessionYes(country),
    ChainSessionNullCountry, ChainSessionNullList(country),
    ChainSessionIntList(country) }

\* extraction_chain.invoke: an exception, or the parsed "sessions" list
\* (empty, up to max_sessions objects, or a list ending in a non-object)
ChainResults(country, max_sessions) ==
  {[kind |-> "raise"]}
  \cup { [kind |-> "list", items |-> l] :
           l \in SeqsUpTo(ChainSessions(country), max_sessions) }
  \cup { [kind |-> "list", items |-> <<NonDict>>],
         [kind |-> "list", items |-> <<ChainSessionFull, NonDict>>] }

\* extraction_chain.invoke in main's run: the results above, or a list of
\* one object with a value of another type
ChainResultsAnyType(country, max_sessions) ==
  ChainResults(country, max_sessions)
  \cup { [kind |-> "list", items |-> <<s>>] :
           s \in ChainSessionsIllTyped(country) }

\* extract_delegates.py: the JSON object found in the response
DelegObjectFull ==
  [country |-> OtherCountry, year |-> LLMYear,
   officials |-> <<NameA>>, representatives |-> <<NameB, NameC>>,
   alternate_representatives |-> <<>>, advisers |-> <<NameD>>,
   leader_present |-> True, leader_name |-> NameA]

\* the object the prompt asks for, without leader_name
DelegObjectEcho(country, yr) ==
  [country |-> country, year |-> yr,
   officials |-> <<>>, representatives |-> <<NameB>>,
   alternate_representatives |-> <<NameC>>, advisers |-> <<>>,
   leader_present |-> False]

\* an object that lacks leader_present and advisers
DelegObjectPartial(country, yr) ==
  [country |-> country, year |-> yr,
   officials |-> <<NameA>>, representatives |-> <<NameB, NameC>>,
   alternate_representatives |-> <<>>, leader_name |-> NameA]

\* an object with a key the dataclass does not have
DelegObjectExtra(country, yr) ==
  [country |-> country, year |-> yr,
   officials |-> <<NameA>>, representatives |-> <<>>,
   alternate_representatives |-> <<>>, advisers |-> <<>>,
   leader_present |-> True, leader_name |-> NameA, total |-> <<NameA>>]

\* an object whose officials is null
DelegObjectNull(country, yr) ==
  [country |-> country, year |-> yr,
   officials |-> Null, representatives |-> <<NameB>>,
   alternate_representatives |-> <<>>, advisers |-> <<>>,
   leader_present |-> False, leader_name |-> <<>>]

\* objects whose values have not the type of the dataclass field:
\* DelegationInfo(**data) checks no type
DelegObjectNullLeader(country, yr) ==
  [country |-> country, year |-> yr,
   officials |-> <<NameA>>, representatives |-> <<>>,
   alternate_representatives |-> <<>>, advisers |-> <<>>,
   leader_present |-> None]

DelegObjectYes(country, yr) ==
  [country |-> country, year |-> yr,
   officials |-> <<NameA>>, representatives |-> <<>>,
   alternate_representatives |-> <<>>, advisers |-> <<>>,
   leader_present |-> StrYes]

\* the year as a JSON number
DelegObjectIntYear(country, yr) ==
  [country |-> country, year |-> IntOf(yr),
   officials |-> <<NameA>>, representatives |-> <<>>,
   alternate_representatives |-> <<>>, advisers |-> <<>>,
   leader_present |-> True]

\* client.chat.completions.create and the scan for a JSON object: an
\* exception, no content, text without braces, braces that do not parse, or
\* an object
DelegResponses(country, yr) ==
  { [kind |-> "raise"], [kind |-> "empty"], [kind |-> "text"],
    [kind |-> "badjson"] }
  \cup { [kind |-> "object", data |-> d] :
           d \in { DelegObjectFull, DelegObjectEcho(country, yr),
                   DelegObjectPartial(country, yr),
                   DelegObjectExtra(country, yr),
                   DelegObjectNull(country, yr),
                   DelegObjectNullLeader(country, yr),
                   DelegObjectYes(country, yr),
                   DelegObjectIntYear(country, yr) } }

RawText == LnMrA

\* clean_and_segment_text: whatever json.loads gives for the text from the
\* first '[' to the last ']' of the response, [] on any failure; the items
\* are objects with or without the two keys, or no objects at all
SegmentResults ==
  { <<>>,
    << [country |-> LnFrance, raw_text |-> RawText] >>,
    << [country |-> LnGermany], [raw_text |-> RawText] >>,
    << NonDict >>,
    << [country |-> LnFrance, raw_text |-> RawText], NonDict >> }

-----------------------------------------------------------------------------
(* count.py: extract_sessions_from_text_chunks *)

\* the degraded record tagged with a default year instead of the caller's
EmptySession_default_year(country, yr) ==
  [country |-> country, year |-> NA, officials |-> <<>>,
   representatives |-> <<>>, alternate_representatives |-> <<>>,
   advisers |-> <<>>, leader_present |-> False]

\* the all-empty record of lines 111-114 and 120-123
EmptySession(country, yr) ==
  [country |-> country, year |-> yr, officials |-> <<>>,
   representatives |-> <<>>, alternate_representatives |-> <<>>,
   advisers |-> <<>>, leader_present |-> False]

\* for session in result: session["year"] = year; sessions.append(session).
\* An item that is no dict raises at the assignment; the except clause then
\* appends the empty record after the sessions already appended.
RECURSIVE stamp_and_append(_, _, _)
stamp_and_append(items, country, yr) ==
  IF items = <<>> THEN <<>>
  ELSE IF ~IsDict(Head(items)) THEN <<EmptySession(country, yr)>>
  ELSE <<SetKey(Head(items), "year", yr)>>
       \o stamp_and_append(Tail(items), country, yr)

\* the body of the loop for one chunk: the records it appends to sessions
chunk_sessions(res, country, yr) ==
  IF res.kind = "raise" THEN <<EmptySession(country, yr)>>
  ELSE stamp_and_append(IF Truthy(res.items) THEN res.items
                        ELSE <<EmptySession(country, yr)>>,
                        country, yr)

-----------------------------------------------------------------------------
(* extract_delegates.py: extract_delegation_info *)

RequiredFields == {"country", "year", "officials", "representatives",
                   "alternate_representatives", "advisers", "leader_present"}
DelegationFields == RequiredFields \cup {"leader_name"}

\* DelegationInfo(**data) raises TypeError on a missing required argument
\* and on an unexpected keyword
DelegationInfo_accepts(data) ==
  /\ RequiredFields \subseteq DOMAIN data
  /\ DOMAIN data \subseteq DelegationFields

\* DelegationInfo(**data): leader_name defaults to None
DelegationInfo(data) ==
  [f \in DelegationFields |-> IF f \in DOMAIN data THEN data[f] ELSE <<>>]

create_empty_delegation(country, yr) ==
  [country |-> country, year |-> yr, officials |-> <<>>,
   representatives |-> <<>>, alternate_representatives |-> <<>>,
   advisers |-> <<>>, leader_present |-> False, leader_name |-> <<>>]

extract_delegation_info(country, yr, resp) ==
  IF resp.kind = "object" /\ DelegationInfo_accepts(resp.data)
  THEN DelegationInfo(resp.data)
  ELSE create_empty_delegation(country, yr)

\* delegation.officials.__len__() + ... of the print that ends the loop
\* body: None has no __len__
print_raises(delegation) ==
  \E f \in {"officials", "representatives", "alternate_representatives",
             "advisers"} : delegation[f] = Null

\* country_data.get('country', f'Unknown_{i}'); idx is the 1-based position, i = idx - 1
country_of(country_data, idx) ==
  IF "country" \in DOMAIN country_data THEN country_data.country
  ELSE Unknown \o <<"_", DigitSeq[idx]>>

\* country_data.get('raw_text', '')
raw_text_of(country_data) ==
  IF "raw_text" \in DOMAIN country_data THEN country_data.raw_text ELSE <<>>

-----------------------------------------------------------------------------
(* count.py: save_sessions_to_excel; extract_delegates.py: save_to_excel *)

\* a collection that takes a record only if none with its country and year
\* is in it yet
RECURSIVE extend_distinct(_, _)
extend_distinct(all, new) ==
  IF new = <<>> THEN all
  ELSE extend_distinct(
         IF \E k \in DOMAIN all : /\ all[k].country = Head(new).country
                                   /\ all[k].year = Head(new).year
         THEN all ELSE Append(all, Head(new)),
         Tail(new))

\* list.extend: the new records after those already collected
extend(all, new) == all \o new

\* s.get(name) or []: None gives the empty list as a missing key does
get_list(s, name) ==
  IF name \in DOMAIN s /\ s[name] # Null THEN s[name] ELSE <<>>

\* the count taken from a total the extraction result carries
attendees_trusted(s) ==
  IF "attendees" \in DOMAIN s THEN s.attendees
  ELSE Len(get_list(s, "officials")) + Len(get_list(s, "representatives"))
       + Len(get_list(s, "alternate_representatives"))
       + Len(get_list(s, "advisers"))

\* len(officials) + len(representatives) + len(alternate_reps) + len(advisers)
attendees_of(s) ==
  Len(get_list(s, "officials")) + Len(get_list(s, "representatives"))
  + Len(get_list(s, "alternate_representatives"))
  + Len(get_list(s, "advisers"))

\* int(value) raises: TypeError on None, ValueError on a str that is no
\* integer literal
int_raises(value) == value \notin {True, False}

\* int(bool)
int_of_bool(b) == IF b = True THEN 1 ELSE 0

\* count.py: the row appended for one session
session_row(s) ==
  [country |-> title(IF "country" \in DOMAIN s THEN s.country ELSE <<>>),
   year |-> IF "year" \in DOMAIN s THEN s.year ELSE <<>>,
   officials |-> Len(get_list(s, "officials")),
   representatives |-> Len(get_list(s, "representatives")),
   alternate_representatives |-> Len(get_list(s, "alternate_representatives")),
   advisers |-> Len(get_list(s, "advisers")),
   attendees |-> attendees_of(s),
   leader_present |-> int_of_bool(IF "leader_present" \in DOMAIN s
                                  THEN s.leader_present ELSE False)]

\* pd.to_numeric(value, errors='coerce') on a str or on an int
to_numeric(value) ==
  IF IsInt(value) THEN float_of(Tail(value))
  ELSE IF \A k \in DOMAIN value : IsDigit(value[k]) \/ value[k] \in {".", "-"}
  THEN float_of(value) ELSE NaN

\* a < b on two floats, neither NaN
float_less(a, b) ==
  LET e == IF a[2] > b[2] THEN a[2] ELSE b[2]
  IN  a[1] * Pow10(e - a[2]) < b[1] * Pow10(e - b[2])

\* extract_delegates.py: the row of one delegation, after the year is made
\* numeric and the country put in title case and stripped
delegation_row(d) ==
  [country |-> strip(title(d.country)),
   year |-> to_numeric(d.year),
   officials |-> Len(d.officials),
   representatives |-> Len(d.representatives),
   alternate_representatives |-> Len(d.alternate_representatives),
   advisers |-> Len(d.advisers),
   total_attendees |-> Len(d.officials) + Len(d.representatives)
                       + Len(d.alternate_representatives) + Len(d.advisers),
   leader_present |-> int_of_bool(d.leader_present)]

\* the order of by=["country", "year"] in count.py, both columns of str
session_row_less(a, b) ==
  \/ StrLess(a.country, b.country)
  \/ a.country = b.country /\ StrLess(a.year, b.year)

\* the order of ["country", "year"] with na_position='last' in
\* extract_delegates.py, the year a float
delegation_row_less(a, b) ==
  \/ StrLess(a.country, b.country)
  \/ /\ a.country = b.country
     /\ a.year # NaN
     /\ (b.year = NaN \/ float_less(a.year, b.year))

\* the order of ['year', 'country'] in extract_contributions.py, the year
\* an int and the country a str
contribution_row_less(a, b) ==
  \/ a.year < b.year
  \/ a.year = b.year /\ StrLess(a.country, b.country)

\* the order of the frame's sort keys
row_less(frame, a, b) ==
  IF frame = "sessions" THEN session_row_less(a, b)
  ELSE IF frame = "delegations" THEN delegation_row_less(a, b)
  ELSE contribution_row_less(a, b)

\* r put before the first row with a greater key
RECURSIVE insert_row(_, _, _)
insert_row(sorted, r, frame) ==
  IF sorted = <<>> THEN <<r>>
  ELSE IF row_less(frame, r, Head(sorted)) THEN <<r>> \o sorted
  ELSE <<Head(sorted)>> \o insert_row(Tail(sorted), r, frame)

\* df.sort_values(by=[...]) on several columns: a stable sort
RECURSIVE sort_values(_, _)
sort_values(rows, frame) ==
  IF rows = <<>> THEN <<>>
  ELSE insert_row(sort_values(SubSeq(rows, 1, Len(rows) - 1), frame),
                  rows[Len(rows)], frame)

\* rows.append(...) for each session
RECURSIVE session_rows(_)
session_rows(all) ==
  IF all = <<>> THEN <<>>
  ELSE <<session_row(Head(all))>> \o session_rows(Tail(all))

\* count.py: save_sessions_to_excel raises while it builds the row of a
\* session: None has no title(), a number has no len(), int() takes
\* neither None nor a str that is no integer literal
save_sessions_raises(all) ==
  \E k \in DOMAIN all :
    \/ "country" \in DOMAIN all[k] /\ all[k].country = NoneStr
    \/ \E f \in {"officials", "representatives",
                 "alternate_representatives", "advisers"} :
         IsInt(Head(get_list(all[k], f) \o <<<<>>>>))
    \/ "leader_present" \in DOMAIN all[k] /\ int_raises(all[k].leader_present)

\* count.py: save_sessions_to_excel, the rows written
save_sessions_to_excel(all) == sort_values(session_rows(all), "sessions")

\* rows.append(row) for each delegation
RECURSIVE delegation_rows(_)
delegation_rows(delegations) ==
  IF delegations = <<>> THEN <<>>
  ELSE <<delegation_row(Head(delegations))>>
       \o delegation_rows(Tail(delegations))

\* extract_delegates.py: save_to_excel raises: min(years) compares an int
\* with a str, or int() gets a leader_present that is None or no integer
\* literal
save_to_excel_raises(delegations) ==
  \/ \E j, k \in DOMAIN delegations :
        /\ IsInt(delegations[j].year)
        /\ ~IsInt(delegations[k].year) /\ delegations[k].year # Unknown
  \/ \E k \in DOMAIN delegations : int_raises(delegations[k].leader_present)

\* extract_delegates.py: save_to_excel, the rows written
save_to_excel(delegations) ==
  sort_values(delegation_rows(delegations), "delegations")

\* DelegationInfo.to_dict: asdict(self), the fields of the dataclass
to_dict(delegation) == [f \in DelegationFields |-> delegation[f]]

\* extract_delegates.py: save_detailed_json, the objects written, in the
\* order of the list
save_detailed_json(delegations) ==
  [k \in DOMAIN delegations |-> to_dict(delegations[k])]

-----------------------------------------------------------------------------
(* extract_delegates.py: the debug_raw_text_<year>.txt files of txt/ *)

\* list(range(start_year, end_year + 1))
year_range(start_year, end_year) ==
  [k \in 1..(end_year + 1 - start_year) |-> start_year + k - 1]

\* os.path.join("txt", f"debug_raw_text_{year}.txt")
debug_path(yr) ==
  path_join(<<"t","x","t">>,
            <<"d","e","b","u","g","_","r","a","w","_","t","e","x","t","_">>
              \o yr \o <<".","t","x","t">>)

\* load_text_from_debug_file: the text read from the file, "" when there is
\* no such file or the read raises
load_text_from_debug_file(files, yr) ==
  LET debug_file == debug_path(yr)
  IN  IF debug_file \in DOMAIN files /\ files[debug_file].readable
      THEN read_text(files[debug_file].text)
      ELSE <<>>

\* a file of txt/: with text (its lines ended by a carriage return and a
\* line feed), with text that cannot be read, empty
TxtContents ==
  { [text |-> LnFrance \o <<CR, NL>> \o LnMrA \o <<CR, NL>>, readable |-> TRUE],
    [text |-> JoinLines(<<LnFrance, LnMrA>>), readable |-> FALSE],
    [text |-> <<>>, readable |-> TRUE] }

\* the txt folder: files for the first and the last year of main's range,
\* or none, and possibly one for a year outside the range
TxtDirs ==
  LET inside  == { debug_path(<<"2","0","0","0">>), debug_path(<<"2","0","1","7">>) }
      outside == debug_path(<<"1","9","9","9">>)
      dirs    == UNION { [D -> TxtContents] : D \in SUBSET inside }
  IN  dirs \cup { [n \in DOMAIN d \cup {outside} |->
                     IF n = outside
                     THEN [text |-> JoinLines(<<LnFrance, LnMrA>>), readable |-> TRUE]
                     ELSE d[n]] : d \in dirs }

-----------------------------------------------------------------------------
(* extract_delegates.py: extract_text_from_pdf and its text_cache folder *)

\* os.path.splitext(name)[0]: the name up to its last dot, the whole name
\* when it has no dot or only leading ones
RECURSIVE last_dot(_, _)
last_dot(name, k) ==
  IF k = 0 THEN 0
  ELSE IF name[k] = "." THEN k
  ELSE last_dot(name, k - 1)

splitext_root(name) ==
  LET d == last_dot(name, Len(name))
  IN  IF d = 0 \/ \A k \in 1..(d - 1) : name[k] = "." THEN name
      ELSE SubSeq(name, 1, d - 1)

\* cache_filename = os.path.splitext(pdf_filename)[0] + ".txt"
cache_filename(path) ==
  splitext_root(basename(path)) \o <<".","t","x","t">>

\* full_text: "\n" and the markdown, or else the text, of each result
RECURSIVE full_text_of(_)
full_text_of(results) ==
  IF results = <<>> THEN <<>>
  ELSE (IF "markdown" \in DOMAIN Head(results)
        THEN <<NL>> \o Head(results).markdown
        ELSE IF "text" \in DOMAIN Head(results)
        THEN <<NL>> \o Head(results).text
        ELSE <<>>)
       \o full_text_of(Tail(results))

\* open(cache_path, 'w'), f.write(full_text) and the close of the file: the
\* file is left as it was when it cannot be opened; once opened it holds the
\* whole text, or, when the write or the flush at the close raises, the
\* characters that reached it before the error
write_cache(files, name, full_text, outcome) ==
  IF outcome.kind = "open_fails" THEN files
  ELSE [n \in DOMAIN files \cup {name} |->
          IF n # name THEN files[n]
          ELSE IF outcome.kind = "ok" \/ outcome.kept >= Len(full_text)
          THEN full_text
          ELSE SubSeq(full_text, 1, outcome.kept)]

\* a cache that is never read
cache_usable_never(files, name, readable) == FALSE

\* os.path.exists(cache_path), and the read of the file succeeds
cache_usable(files, name, readable) == name \in DOMAIN files /\ readable

\* one call: what it returns, whether it invoked the parser, and the files
\* of the text_cache folder after it
extract_text_from_pdf(files, path, readable, parsed, write_outcome) ==
  LET name == cache_filename(path)
  IN  IF cache_usable(files, name, readable)
      THEN [returned |-> read_text(files[name]), parse_called |-> FALSE,
            files |-> files]
      ELSE IF parsed.kind = "raise"
      THEN [returned |-> <<>>, parse_called |-> TRUE, files |-> files]
      ELSE [returned |-> full_text_of(parsed.results), parse_called |-> TRUE,
            files |-> write_cache(files, name, full_text_of(parsed.results),
                                  write_outcome)]

PathA    == <<"p","d","f","s","/","a",".","p","d","f">>
PathOldA == <<"o","l","d","/","a",".","p","d","f">>
PathB1   == <<"p","d","f","s","/","b",".","1",".","p","d","f">>

Paths == { PathA, PathOldA, PathB1 }

\* markdown with carriage returns, before a line feed and alone
LnCr == <<CR, NL, "A", CR>>

\* a result with markdown, one with text only, one with neither, one whose
\* markdown has carriage returns
ParseResults ==
  { [markdown |-> LnFrance], [text |-> LnMrA], [page |-> <<"1">>],
    [markdown |-> LnCr] }

\* parse(pdf_path): an exception, or a list of results
ParseOutcomes ==
  {[kind |-> "raise"]}
  \cup { [kind |-> "results", results |-> rs] :
           rs \in SeqsUpTo(ParseResults, MaxResults) }

\* the write of the cache file: done, the open raises, or the write raises
\* after `kept` characters are in the file; the except clause of line 92
\* swallows either error
WriteOutcomes ==
  { [kind |-> "ok"], [kind |-> "open_fails"] }
  \cup { [kind |-> "write_fails", kept |-> k] : k \in 0..MaxKept }

\* parse(pdf_path) on a document of the folder: an exception, or one result
\* whose markdown is the text of the document, none for a document without
\* text
ParseOf(doc) ==
  { [kind |-> "raise"],
    [kind |-> "results",
     results |-> IF Truthy(doc.text) THEN <<[markdown |-> doc.text]>>
                 ELSE <<>>] }

\* self.extract_text_from_pdf(pdf_path) on a document of the folder: what
\* the call may return and leave in text_cache
extract_text_calls(files, doc) ==
  LET path == path_join(FolderPath, doc.filename)
  IN  { extract_text_from_pdf(files, path, readable, parsed, w) :
          readable \in (IF cache_filename(path) \in DOMAIN files
                        THEN BOOLEAN ELSE {TRUE}),
          parsed \in ParseOf(doc), w \in WriteOutcomes }

\* the text_cache folder when process_pdf_folder starts: empty, or with the
\* text an earlier run cached for report.pdf, a carriage return in it
FolderCaches ==
  { <<>>,
    [n \in {cache_filename(FileReport)} |-> <<NL>> \o LnFrance \o <<CR>>] }

-----------------------------------------------------------------------------
(* The two pipelines, file by file and chunk by chunk *)

InitPipe ==
  /\ prog \in {"count", "folder", "delegates"}
  /\ IF prog = "delegates"
     THEN /\ pdf_files = <<>>
          /\ years = year_range(2000, 2017)
          /\ txt_files \in TxtDirs
     ELSE /\ pdf_files \in Listings
          /\ prog = "folder" => IsSortedListing(pdf_files)
          /\ years = <<>>
          /\ txt_files = <<>>
  /\ pc = "loop"
  /\ year = <<>>
  /\ chunks = <<>>
  /\ i = 1
  /\ result = [kind |-> "none"]
  /\ sessions = <<>>
  /\ all_sessions = <<>>
  /\ export = <<>>
  /\ details = <<>>
  /\ text_cache \in (IF prog = "folder" THEN FolderCaches ELSE {<<>>})
  /\ SegIdle /\ NumIdle /\ ColIdle /\ ContribIdle /\ MergeIdle /\ KeyIdle /\ FillIdle /\ YearIdle /\ OrderIdle /\ CallIdle

\* count.py main: parse() raises inside extract_text_from_pdf; nothing catches it
CountParseRaises ==
  /\ prog = "count" /\ pc = "loop" /\ pdf_files # <<>>
  /\ pc' = "crashed"
  /\ year' = get_year_from_filename(Head(pdf_files).filename)
  /\ UNCHANGED <<inputVars, years, details, pdf_files, chunks, i, result, sessions, all_sessions, export, nonPipeVars>>

\* count.py main: `if not text: continue`
CountSkipFile ==
  /\ prog = "count" /\ pc = "loop" /\ pdf_files # <<>>
  /\ ~Truthy(Head(pdf_files).text)
  /\ year' = get_year_from_filename(Head(pdf_files).filename)
  /\ pdf_files' = Tail(pdf_files)
  /\ UNCHANGED <<inputVars, years, details, pc, chunks, i, result, sessions, all_sessions, export, nonPipeVars>>

\* count.py main: the year, the text and the chunks of the next file
CountStartFile ==
  /\ prog = "count" /\ pc = "loop" /\ pdf_files # <<>>
  /\ Truthy(Head(pdf_files).text)
  /\ year' = get_year_from_filename(Head(pdf_files).filename)
  /\ chunks' = split_text_by_country(Head(pdf_files).text)
  /\ sessions' = <<>>
  /\ i' = 1
  /\ pc' = "extract"
  /\ UNCHANGED <<inputVars, years, details, pdf_files, result, all_sessions, export, nonPipeVars>>

\* extract_sessions_from_text_chunks: one iteration of its loop
CountExtractChunk ==
  /\ prog = "count" /\ pc = "extract" /\ i <= Len(chunks)
  /\ \E res \in ChainResultsAnyType(chunks[i][1], MaxSessions) :
       /\ result' = res
       /\ sessions' = sessions \o chunk_sessions(res, chunks[i][1], year)
  /\ i' = i + 1
  /\ UNCHANGED <<inputVars, years, details, pdf_files, pc, year, chunks, all_sessions, export, nonPipeVars>>

\* count.py main: extract_sessions_from_text_chunks returns, its locals are
\* gone, and all_sessions.extend(sessions)
CountFinishFile ==
  /\ prog = "count" /\ pc = "extract" /\ i > Len(chunks)
  /\ all_sessions' = extend(all_sessions, sessions)
  /\ pdf_files' = Tail(pdf_files)
  /\ pc' = "loop"
  /\ i' = 1
  /\ result' = [kind |-> "none"]
  /\ UNCHANGED <<inputVars, years, details, year, chunks, sessions, export, nonPipeVars>>

\* count.py main: the loop over the files is over and
\* save_sessions_to_excel raises on a value of a session; nothing is written
CountSaveRaises ==
  /\ prog = "count" /\ pc = "loop" /\ pdf_files = <<>>
  /\ Truthy(all_sessions) /\ save_sessions_raises(all_sessions)
  /\ pc' = "crashed"
  /\ UNCHANGED <<inputVars, years, details, pdf_files, year, chunks, i, result, sessions, all_sessions, export, nonPipeVars>>

\* count.py main: the loop over the files is over; nothing is saved when
\* all_sessions is empty
CountDone ==
  /\ prog = "count" /\ pc = "loop" /\ pdf_files = <<>>
  /\ ~(Truthy(all_sessions) /\ save_sessions_raises(all_sessions))
  /\ pc' = "done"
  /\ export' = IF Truthy(all_sessions)
               THEN save_sessions_to_excel(all_sessions) ELSE <<>>
  /\ UNCHANGED <<inputVars, years, details, pdf_files, year, chunks, i, result, sessions, all_sessions, nonPipeVars>>

\* process_single_pdf: extract_text_from_pdf gives no text (the parse failed
\* or gave nothing, or the cache file is empty), or no country is found in
\* the text; the caller's delegations is the empty list, the file adds
\* nothing, and the call has left what it wrote in text_cache
DelegSkipFile ==
  /\ prog = "folder" /\ pc = "loop" /\ pdf_files # <<>>
  /\ year' = extract_year_from_filepath(path_join(FolderPath, Head(pdf_files).filename))
  /\ \E r \in extract_text_calls(text_cache, Head(pdf_files)) :
       /\ \/ ~Truthy(r.returned)
          \/ \E countries_data \in SegmentResults : ~Truthy(countries_data)
       /\ text_cache' = r.files
  /\ sessions' = <<>>
  /\ pdf_files' = Tail(pdf_files)
  /\ UNCHANGED <<inputVars, years, pc, chunks, i, result, all_sessions, export, details, nonPipeDirVars>>

\* process_single_pdf: the year, the text and countries_data of the next file
DelegStartFile ==
  /\ prog = "folder" /\ pc = "loop" /\ pdf_files # <<>>
  /\ year' = extract_year_from_filepath(path_join(FolderPath, Head(pdf_files).filename))
  /\ \E r \in extract_text_calls(text_cache, Head(pdf_files)) :
       /\ Truthy(r.returned)
       /\ text_cache' = r.files
  /\ \E countries_data \in SegmentResults :
       /\ Truthy(countries_data)
       /\ chunks' = countries_data
  /\ sessions' = <<>>
  /\ i' = 1
  /\ pc' = "extract"
  /\ UNCHANGED <<inputVars, pdf_files, years, result, all_sessions, export, details, nonPipeDirVars>>

\* one iteration of the loop over countries_data that runs to its end: the
\* record of the country is appended
ExtractCountry ==
  /\ pc = "extract" /\ i <= Len(chunks)
  /\ IsDict(chunks[i])
  /\ LET country == country_of(chunks[i], i)
     IN  \E resp \in DelegResponses(country, year) :
           LET delegation == extract_delegation_info(country, year, resp)
           IN  /\ ~print_raises(delegation)
               /\ result' = resp
               /\ sessions' = Append(sessions, delegation)
  /\ i' = i + 1
  /\ UNCHANGED <<inputVars, pdf_files, years, pc, year, chunks, all_sessions, export, details, nonPipeVars>>

\* one iteration of the loop over countries_data that raises: at
\* country_data.get when the item is no dict, or at the print after the
\* append when a name list of the record is None; nothing up to main catches
\* the AttributeError
CountryRaises ==
  /\ pc = "extract" /\ i <= Len(chunks)
  /\ \/ /\ ~IsDict(chunks[i])
        /\ UNCHANGED <<result, sessions>>
     \/ /\ IsDict(chunks[i])
        /\ LET country == country_of(chunks[i], i)
           IN  \E resp \in DelegResponses(country, year) :
                 LET delegation == extract_delegation_info(country, year, resp)
                 IN  /\ print_raises(delegation)
                     /\ result' = resp
                     /\ sessions' = Append(sessions, delegation)
  /\ pc' = "crashed"
  /\ UNCHANGED <<inputVars, pdf_files, years, year, chunks, i, all_sessions, export, details, nonPipeVars>>

\* process_single_pdf: one iteration of the loop over countries_data
DelegExtractCountry == prog = "folder" /\ ExtractCountry

\* process_single_pdf: an iteration of the loop that raises
DelegCountryRaises == prog = "folder" /\ CountryRaises

\* process_pdf_folder: process_single_pdf returns delegations, its other
\* locals are gone, and all_delegations.extend(delegations)
DelegFinishFile ==
  /\ prog = "folder" /\ pc = "extract" /\ i > Len(chunks)
  /\ all_sessions' = extend(all_sessions, sessions)
  /\ pdf_files' = Tail(pdf_files)
  /\ pc' = "loop"
  /\ chunks' = <<>>
  /\ i' = 1
  /\ result' = [kind |-> "none"]
  /\ UNCHANGED <<inputVars, years, year, sessions, export, details, nonPipeVars>>

\* process_pdf_folder returns all_delegations; it saves nothing
FolderReturn ==
  /\ prog = "folder" /\ pc = "loop" /\ pdf_files = <<>>
  /\ pc' = "done"
  /\ UNCHANGED <<inputVars, pdf_files, years, year, chunks, i, result, sessions, all_sessions, export, details, nonPipeVars>>

\* process_single_year returns []: no text loaded from the file of the
\* year, or no country found in it; the caller's delegations is the empty
\* list and the year adds nothing
YearSkip ==
  /\ prog = "delegates" /\ pc = "loop" /\ years # <<>>
  /\ \/ ~Truthy(load_text_from_debug_file(txt_files, IntToDigits(Head(years))))
     \/ \E countries_data \in SegmentResults : ~Truthy(countries_data)
  /\ year' = IntToDigits(Head(years))
  /\ sessions' = <<>>
  /\ years' = Tail(years)
  /\ UNCHANGED <<inputVars, pdf_files, pc, chunks, i, result, all_sessions, export, details, nonPipeVars>>

\* process_single_year: str(year), the text of its file and countries_data
YearStart ==
  /\ prog = "delegates" /\ pc = "loop" /\ years # <<>>
  /\ Truthy(load_text_from_debug_file(txt_files, IntToDigits(Head(years))))
  /\ year' = IntToDigits(Head(years))
  /\ \E countries_data \in SegmentResults :
       /\ Truthy(countries_data)
       /\ chunks' = countries_data
  /\ sessions' = <<>>
  /\ i' = 1
  /\ pc' = "extract"
  /\ UNCHANGED <<inputVars, pdf_files, years, result, all_sessions, export, details, nonPipeVars>>

\* process_single_year: one iteration of the loop over countries_data
YearExtractCountry == prog = "delegates" /\ ExtractCountry

\* process_single_year: an iteration of the loop that raises
YearCountryRaises == prog = "delegates" /\ CountryRaises

\* process_years_from_text_files: process_single_year returns delegations,
\* its other locals are gone, and all_delegations.extend(delegations)
YearFinish ==
  /\ prog = "delegates" /\ pc = "extract" /\ i > Len(chunks)
  /\ all_sessions' = extend(all_sessions, sessions)
  /\ years' = Tail(years)
  /\ pc' = "loop"
  /\ chunks' = <<>>
  /\ i' = 1
  /\ result' = [kind |-> "none"]
  /\ UNCHANGED <<inputVars, pdf_files, year, sessions, export, details, nonPipeVars>>

\* extract_delegates.py main: save_to_excel raises on the records
\* process_years_from_text_files has returned; neither the workbook nor the
\* JSON file is written
DelegSaveRaises ==
  /\ prog = "delegates" /\ pc = "loop" /\ years = <<>>
  /\ Truthy(all_sessions) /\ save_to_excel_raises(all_sessions)
  /\ pc' = "crashed"
  /\ UNCHANGED <<inputVars, pdf_files, years, year, chunks, i, result, sessions, all_sessions, export, details, nonPipeVars>>

\* extract_delegates.py main: process_years_from_text_files has returned
\* all_delegations; save_to_excel and save_detailed_json write them unless
\* there is none
DelegDone ==
  /\ prog = "delegates" /\ pc = "loop" /\ years = <<>>
  /\ ~(Truthy(all_sessions) /\ save_to_excel_raises(all_sessions))
  /\ pc' = "done"
  /\ export' = IF Truthy(all_sessions) THEN save_to_excel(all_sessions) ELSE <<>>
  /\ details' = IF Truthy(all_sessions) THEN save_detailed_json(all_sessions)
                ELSE <<>>
  /\ UNCHANGED <<inputVars, pdf_files, years, year, chunks, i, result, sessions, all_sessions, nonPipeVars>>

NextPipe ==
  \/ CountParseRaises
  \/ CountSkipFile
  \/ CountStartFile
  \/ CountExtractChunk
  \/ CountFinishFile
  \/ CountSaveRaises
  \/ CountDone
  \/ DelegSkipFile
  \/ DelegStartFile
  \/ DelegExtractCountry
  \/ DelegCountryRaises
  \/ DelegFinishFile
  \/ FolderReturn
  \/ YearSkip
  \/ YearStart
  \/ YearExtractCountry
  \/ YearCountryRaises
  \/ YearFinish
  \/ DelegSaveRaises
  \/ DelegDone

SpecPipe == InitPipe /\ [][NextPipe]_vars

-----------------------------------------------------------------------------
(* The numeric normalizers *)

\* re.sub(r'[^\d\.-]', '', s) and re.sub(r'[^0-9\.-]', '', s)
keep_numeric_chars(s) == SelectSeq(s, LAMBDA c : IsDigit(c) \/ c \in {".", "-"})

\* s.replace(',', '').replace(' ', '')
drop_commas_spaces(s) == SelectSeq(s, LAMBDA c : c \notin {",", " "})

\* extract_contributions.py: clean_numeric_value; a missing cell (pd.NA) is
\* the empty sequence
clean_numeric_value(value) ==
  IF value = <<>> THEN <<>>
  ELSE LET s == keep_numeric_chars(drop_commas_spaces(strip(value)))
       IN  IF ~\E k \in DOMAIN s : IsDigit(s[k]) THEN <<>> ELSE s

\* combine_contributions.py: clean_numeric; a missing cell (NaN) is the
\* empty sequence
clean_numeric(x) ==
  IF x = <<>> THEN NaN
  ELSE LET s_clean == keep_numeric_chars(x)
       IN  IF s_clean \in {<<>>, <<".">>, <<"-">>} THEN NaN
           ELSE float_of(s_clean)

\* the characters of the cell values tried exhaustively
NumAlphabet == {"0", "1", ".", "-", ",", "N"}

NumExamples == { <<"1",",","2","3","4",".","5","0">>, <<"-","-">>, <<"N","/","A">>, <<"1",".","2",".","3">>, <<" ","1","2"," ">>, <<"-","0",".","5","0">> }

NumInputs == SeqsUpTo(NumAlphabet, MaxNumLen) \cup NumExamples

InitNum ==
  /\ num_input \in NumInputs
  /\ num_result = <<>>
  /\ num_pc = "ready"
  /\ SegIdle /\ PipeIdle /\ ColIdle /\ ContribIdle /\ MergeIdle /\ KeyIdle /\ FillIdle /\ YearIdle /\ OrderIdle /\ CacheIdle

CleanNumericValue ==
  /\ num_pc = "ready"
  /\ num_result' = clean_numeric_value(num_input)
  /\ num_pc' = "clean_numeric_value"
  /\ UNCHANGED <<num_input, nonNumVars>>

CleanNumeric ==
  /\ num_pc = "ready"
  /\ num_result' = clean_numeric(num_input)
  /\ num_pc' = "clean_numeric"
  /\ UNCHANGED <<num_input, nonNumVars>>

NextNum == CleanNumericValue \/ CleanNumeric

SpecNum == InitNum /\ [][NextNum]_vars

-----------------------------------------------------------------------------
(* extract_contributions.py: find_contribution_columns *)

TermOutstanding == <<"o","u","t","s","t","a","n","d","i","n","g">>

country_candidates == << <<"m","e","m","b","e","r"," ","s","t","a","t","e">>, <<"c","o","u","n","t","r","y">>, <<"m","e","m","b","e","r">>, <<"s","t","a","t","e">> >>
collection_candidates == << <<"c","o","l","l","e","c","t","i","o","n","s">>, <<"a","d","j","u","s","t","m","e","n","t","s">>, <<"c","o","l","l","e","c","t","i","o","n">>,
                            <<"a","d","j","u","s","t","m","e","n","t">> >>
outstanding_candidates == << TermOutstanding, <<"t","o","t","a","l"," ","o","u","t","s","t","a","n","d","i","n","g">> >>
net_candidates == << <<"n","e","t"," ","c","o","n","t","r","i","b","u","t","i","o","n","s">>, <<"n","e","t"," ","c","o","n","t","r","i","b","u","t","i","o","n">>,
                     <<"a","s","s","e","s","s","e","d"," ","c","o","n","t","r","i","b","u","t","i","o","n","s">> >>

\* a resolver that takes a column for the collections whatever it contains
column_eligible_always(col, skip_outstanding) == TRUE

\* whether a column may be matched: the collections field skips the columns
\* that contain 'outstanding'
column_eligible(col, skip_outstanding) ==
  ~skip_outstanding \/ ~Contains(col, TermOutstanding)

\* lower_columns = [col.lower() for col in columns]
lower_columns(cols) == [k \in DOMAIN cols |-> lower(cols[k])]

\* the inner loop: the position of the first lowered column that contains
\* the candidate, 0 if none
RECURSIVE first_column_with(_, _, _, _)
first_column_with(candidate, lcols, k, skip_outstanding) ==
  IF k > Len(lcols) THEN 0
  ELSE IF Contains(lcols[k], candidate)
          /\ column_eligible(lcols[k], skip_outstanding) THEN k
  ELSE first_column_with(candidate, lcols, k + 1, skip_outstanding)

\* a resolver that walks the columns in the outer loop and the candidates
\* in the inner one
resolve_column_major(candidates, lcols, skip_outstanding) ==
  LET hits == { k \in DOMAIN lcols :
                  \E c \in DOMAIN candidates :
                    first_column_with(candidates[c], <<lcols[k]>>, 1,
                                      skip_outstanding) # 0 }
  IN  IF hits = {} THEN 0
      ELSE CHOOSE k \in hits : \A h \in hits : k <= h

\* the outer loop over the candidates, in priority order: the position of
\* the column the field resolves to, 0 if none
RECURSIVE resolve(_, _, _)
resolve(candidates, lcols, skip_outstanding) ==
  IF candidates = <<>> THEN 0
  ELSE LET k == first_column_with(Head(candidates), lcols, 1, skip_outstanding)
       IN  IF k # 0 THEN k
           ELSE resolve(Tail(candidates), lcols, skip_outstanding)

\* the fields looked for in a table of the given year, with their candidates
field_candidates(yr) ==
  IF yr <= 2010
  THEN [country |-> country_candidates,
        annual_contributions |-> collection_candidates,
        total_outstanding_contributions |-> outstanding_candidates]
  ELSE [country |-> country_candidates,
        assessed_contributions |-> net_candidates]

field_position(cols, yr, f) ==
  resolve(field_candidates(yr)[f], lower_columns(cols),
          f = "annual_contributions")

find_contribution_columns(cols, yr) ==
  LET position == [f \in DOMAIN field_candidates(yr) |->
                     field_position(cols, yr, f)]
      found    == { f \in DOMAIN position : position[f] # 0 }
  IN  [f \in found |-> cols[position[f]]]

HdrStateCode   == <<"S","t","a","t","e"," ","c","o","d","e">>
HdrMemberState == <<"M","e","m","b","e","r"," ","S","t","a","t","e">>
HdrCountry     == <<"C","O","U","N","T","R","Y">>
HdrCollections == <<"C","o","l","l","e","c","t","i","o","n","s">>
HdrOutstColl   == <<"O","u","t","s","t","a","n","d","i","n","g"," ","c","o","l","l","e","c","t","i","o","n","s">>
HdrAdjustments == <<"A","d","j","u","s","t","m","e","n","t","s">>
HdrTotalOutst  == <<"T","o","t","a","l"," ","O","u","t","s","t","a","n","d","i","n","g">>
HdrNet         == <<"N","e","t"," ","c","o","n","t","r","i","b","u","t","i","o","n","s">>
HdrAssessed    == <<"A","s","s","e","s","s","e","d"," ","C","o","n","t","r","i","b","u","t","i","o","n","s">>
HdrAmount      == <<"A","m","o","u","n","t">>

Headers == { HdrStateCode, HdrMemberState, HdrCountry, HdrCollections,
             HdrOutstColl, HdrAdjustments, HdrTotalOutst, HdrNet,
             HdrAssessed, HdrAmount }

ColYears == { 2010, 2011 }

InitCols ==
  /\ columns \in SeqsUpTo(Headers, MaxCols)
  /\ col_year \in ColYears
  /\ column_mapping = <<>>
  /\ col_pc = "ready"
  /\ SegIdle /\ PipeIdle /\ NumIdle /\ ContribIdle /\ MergeIdle /\ KeyIdle /\ FillIdle /\ YearIdle /\ OrderIdle /\ CacheIdle

FindColumns ==
  /\ col_pc = "ready"
  /\ column_mapping' = find_contribution_columns(columns, col_year)
  /\ col_pc' = "done"
  /\ UNCHANGED <<columns, col_year, nonColVars>>

NextCols == FindColumns

SpecCols == InitCols /\ [][NextCols]_vars

-----------------------------------------------------------------------------
(* Contribution tables *)

\* a table is [columns |-> labels, rows |-> rows, labels |-> kind]; a row has
\* one cell per column, a cell is a str and the empty sequence is a missing
\* cell.  The column labels are the strs of a header row (kind "header") or
\* the integers 0, 1, ... of a RangeIndex (kind "range", each integer
\* written as its digit).

CtMali  == <<"M","a","l","i">>
CtChad  == <<" ","C","h","a","d"," ">>
CtTotal == <<"T","o","t","a","l">>

N100   == <<"1","0","0">>
N50    == <<"5","0">>
N0     == <<"0">>
N7     == <<"7">>
NNeg   == <<"-","1","0","0">>
NDots  == <<"1",".","2",".","3">>
NDash  == <<"-","-">>
NComma == <<"1",",","2","3","4",".","5","0">>

\* rows of four cells: a country and three amounts; the sums of the amounts
\* are exact in binary floating point
RowPool ==
  { <<CtMali, N100, N50, N7>>,      <<CtMali, N100, <<>>, N7>>,
    <<CtMali, <<>>, N50, <<>>>>,    <<CtMali, N0, N0, N0>>,
    <<CtMali, N0, <<>>, NDots>>,    <<CtMali, <<>>, <<>>, NDash>>,
    <<CtMali, N100, NNeg, N7>>,     <<CtMali, NDots, N50, N7>>,
    <<CtMali, NComma, N0, NComma>>, <<CtChad, N50, NDash, N7>>,
    <<<<>>, N100, N50, N7>>,        <<CtTotal, N100, N50, N7>> }

HdrCode    == <<"C","o","d","e">>
HdrPaid    == <<"P","a","i","d">>
HdrBalance == <<"B","a","l","a","n","c","e">>

LayoutLegacy    == <<HdrMemberState, HdrNet, HdrCollections, HdrTotalOutst>>
LayoutCross     == <<HdrCountry, HdrOutstColl, HdrAdjustments, HdrAssessed>>
LayoutNoFinance == <<HdrMemberState, HdrAmount, HdrPaid, HdrBalance>>
LayoutNoCountry == <<HdrCode, HdrCollections, HdrTotalOutst, HdrNet>>
\* a header row that repeats a label
LayoutRepeated  == <<HdrMemberState, HdrCollections, HdrCollections, HdrNet>>

ExtractLayouts == { LayoutLegacy, LayoutCross, LayoutNoFinance, LayoutNoCountry,
                    LayoutRepeated }

\* extract_tables_from_json, lines 106-112: the frame built from the rows of
\* one <table>; the first of several rows gives the labels, a single row is
\* data under a RangeIndex
frame_of(rows) ==
  IF Len(rows) > 1
  THEN [columns |-> rows[1], rows |-> Tail(rows), labels |-> "header"]
  ELSE [columns |-> [k \in DOMAIN rows[1] |-> <<DigitSeq[k]>>], rows |-> rows,
        labels |-> "range"]

ExtractTables ==
  { [columns |-> l, rows |-> rs, labels |-> "header"] :
      l \in ExtractLayouts, rs \in SeqsUpTo(RowPool, MaxRows) }
  \cup { frame_of(<<l>>) : l \in ExtractLayouts }
  \cup { frame_of(<<LayoutLegacy, r>>) : r \in RowPool }

\* a sheet of the workbook: the amounts of a pool row laid out in nine
\* columns, of which the sheet keeps the first `width`
SheetHeader(k) == <<"c", DigitSeq[k + 1]>>

Filler == <<"x">>

SheetRow(r, width) ==
  SubSeq(<<r[1], Filler, Filler, Filler, r[4], r[2], Filler, r[2], r[3]>>,
         1, width)

SheetWidths == { 2, 5, 6, 9 }

Sheets ==
  { [columns |-> [k \in 1..w |-> SheetHeader(k)],
     rows    |-> [k \in DOMAIN rs |-> SheetRow(rs[k], w)]] :
      w \in SheetWidths, rs \in SeqsUpTo(RowPool, MaxRows) }

FirstExtractTable ==
  [columns |-> LayoutLegacy, rows |-> << <<CtChad, N50, N50, N50>> >>,
   labels |-> "header"]

FirstSheet ==
  [columns |-> [k \in 1..9 |-> SheetHeader(k)],
   rows    |-> << SheetRow(<<CtChad, N50, N50, N50>>, 9) >>]

\* the tables of one document, the sheets of one workbook
TableLists(first, pool) ==
  { prefix \o <<t>> : prefix \in { <<>>, <<first>> }, t \in pool }

ContribYears == { 2008, 2010, 2011, 2013, 2016, 2017 }

\* ---- extract_contributions.py: extract_contributions_data

\* row.get(name, '') on a row of the table
row_get(table, row, name) ==
  row[CHOOSE k \in DOMAIN table.columns : table.columns[k] = name]

\* the cell a field is read from, '' when the field has no column
field_cell(table, row, mapping, f) ==
  IF f \in DOMAIN mapping THEN clean_numeric_value(row_get(table, row, mapping[f]))
  ELSE <<>>

\* float(v) if v else 0
float_or_zero(v) == IF Truthy(v) THEN float_of(v) ELSE <<0, 0>>

\* the try block of the legacy branch: the sum as a str, '' when either
\* float() raises or both values are zero
legacy_assessed(annual, outstanding) ==
  IF Truthy(annual) /\ ~float_accepts(annual) THEN <<>>
  ELSE IF Truthy(outstanding) /\ ~float_accepts(outstanding) THEN <<>>
  ELSE IF float_or_zero(annual) # <<0, 0>> \/ float_or_zero(outstanding) # <<0, 0>>
       THEN float_str(DecAdd(float_or_zero(annual), float_or_zero(outstanding)))
  ELSE <<>>

\* the record of one row whose country is not blank
extract_record(table, row, mapping, yr) ==
  LET annual      == field_cell(table, row, mapping, "annual_contributions")
      outstanding == field_cell(table, row, mapping,
                                "total_outstanding_contributions")
  IN  IF yr <= 2010
      THEN [year |-> yr,
            country |-> strip(row_get(table, row, mapping.country)),
            annual_contributions |-> annual,
            total_outstanding_contributions |-> outstanding,
            assessed_contributions |-> legacy_assessed(annual, outstanding)]
      ELSE [year |-> yr,
            country |-> strip(row_get(table, row, mapping.country)),
            annual_contributions |-> <<>>,
            total_outstanding_contributions |-> <<>>,
            assessed_contributions |->
              field_cell(table, row, mapping, "assessed_contributions")]

\* pd.isna(country) or str(country).strip() == ''
blank_country(table, row, mapping) ==
  strip(row_get(table, row, mapping.country)) = <<>>

RECURSIVE extract_rows(_, _, _, _)
extract_rows(table, rows, mapping, yr) ==
  IF rows = <<>> THEN <<>>
  ELSE (IF blank_country(table, Head(rows), mapping) THEN <<>>
        ELSE <<extract_record(table, Head(rows), mapping, yr)>>)
       \o extract_rows(table, Tail(rows), mapping, yr)

\* ---- combine_contributions.py: process_file

\* df.iloc[:, k].apply(clean_numeric) if df.shape[1] > k else NaN, with k
\* counted from 1 here
sheet_number(table, row, k) ==
  IF Len(table.columns) >= k THEN clean_numeric(row[k]) ELSE NaN

\* a sheet that takes the direct column of one year for every year
direct_column_fixed(yr) == 5

\* the column assessed_contributions is read from after 2010
direct_column(yr) == IF yr = 2016 THEN 8 ELSE 5

sheet_record(table, row, yr) ==
  LET annual      == sheet_number(table, row, 6)
      outstanding == sheet_number(table, row, 9)
  IN  IF yr <= 2010
      THEN [year |-> yr,
            country |-> strip(row[1]),
            annual_contributions |-> annual,
            total_outstanding_contributions |-> outstanding,
            assessed_contributions |->
              IF annual # NaN /\ outstanding # NaN
              THEN DecAdd(annual, outstanding) ELSE NaN]
      ELSE [year |-> yr,
            country |-> strip(row[1]),
            annual_contributions |-> NaN,
            total_outstanding_contributions |-> NaN,
            assessed_contributions |->
              sheet_number(table, row, direct_column(yr))]

sheet_rows(table, yr) ==
  [k \in DOMAIN table.rows |-> sheet_record(table, table.rows[k], yr)]

\* whether the label names more than one column: row.get(label) is then a
\* Series, and its truth test raises ValueError
repeated_label(table, name) ==
  Cardinality({ k \in DOMAIN table.columns : table.columns[k] = name }) > 1

\* whether the loop body raises on a table that is not empty:
\* col.lower() on an integer label (AttributeError), pd.isna(country) on a
\* repeated country label, or clean_numeric_value on a repeated amount label
\* in the first row that has a country
table_raises(df, yr) ==
  \/ df.labels = "range"
  \/ /\ df.labels = "header"
     /\ \E k \in DOMAIN df.columns : repeated_label(df, df.columns[k])
     /\ LET mapping == find_contribution_columns(df.columns, yr)
        IN  /\ "country" \in DOMAIN mapping
            /\ \/ repeated_label(df, mapping.country)
               \/ /\ \E f \in DOMAIN mapping \ {"country"} :
                        repeated_label(df, mapping[f])
                  /\ \E k \in DOMAIN df.rows :
                        ~blank_country(df, df.rows[k], mapping)

\* ---- the two programs, one table or sheet at a time

InitContrib ==
  /\ cprog \in {"extract", "combine"}
  /\ c_year \in ContribYears
  /\ tables \in IF cprog = "extract"
                THEN TableLists(FirstExtractTable, ExtractTables)
                ELSE TableLists(FirstSheet, Sheets)
  /\ table_idx = 1
  /\ new_records = <<>>
  /\ all_data = <<>>
  /\ c_raised = FALSE
  /\ SegIdle /\ PipeIdle /\ NumIdle /\ ColIdle /\ MergeIdle /\ KeyIdle /\ FillIdle /\ YearIdle /\ OrderIdle /\ CacheIdle

\* if df.empty: continue
ExtractSkipEmpty ==
  /\ cprog = "extract" /\ ~c_raised /\ table_idx <= Len(tables)
  /\ tables[table_idx].rows = <<>>
  /\ table_idx' = table_idx + 1
  /\ new_records' = <<>>
  /\ UNCHANGED <<cprog, c_year, tables, all_data, c_raised, nonContribVars>>

\* if 'country' not in column_mapping: continue
ExtractSkipNoCountry ==
  /\ cprog = "extract" /\ ~c_raised /\ table_idx <= Len(tables)
  /\ tables[table_idx].rows # <<>>
  /\ ~table_raises(tables[table_idx], c_year)
  /\ "country" \notin
       DOMAIN find_contribution_columns(tables[table_idx].columns, c_year)
  /\ table_idx' = table_idx + 1
  /\ new_records' = <<>>
  /\ UNCHANGED <<cprog, c_year, tables, all_data, c_raised, nonContribVars>>

ExtractTable ==
  /\ cprog = "extract" /\ ~c_raised /\ table_idx <= Len(tables)
  /\ tables[table_idx].rows # <<>>
  /\ ~table_raises(tables[table_idx], c_year)
  /\ LET df      == tables[table_idx]
         mapping == find_contribution_columns(df.columns, c_year)
     IN  /\ "country" \in DOMAIN mapping
         /\ new_records' = extract_rows(df, df.rows, mapping, c_year)
         /\ all_data' = all_data \o new_records'
  /\ table_idx' = table_idx + 1
  /\ UNCHANGED <<cprog, c_year, tables, c_raised, nonContribVars>>

\* the exception leaves extract_contributions_data: nothing in it, nor in
\* process_all_pdfs around it, catches
ExtractRaises ==
  /\ cprog = "extract" /\ ~c_raised /\ table_idx <= Len(tables)
  /\ tables[table_idx].rows # <<>>
  /\ table_raises(tables[table_idx], c_year)
  /\ c_raised' = TRUE
  /\ UNCHANGED <<cprog, c_year, tables, table_idx, new_records, all_data,
                 nonContribVars>>

\* if not year or not (2000 <= year <= 2016): return pd.DataFrame()
CombineSkipFile ==
  /\ cprog = "combine" /\ table_idx <= Len(tables)
  /\ ~(2000 <= c_year /\ c_year <= 2016)
  /\ table_idx' = Len(tables) + 1
  /\ new_records' = <<>>
  /\ UNCHANGED <<cprog, c_year, tables, all_data, c_raised, nonContribVars>>

\* if df.empty or df.shape[1] < 3: continue
CombineSkipSheet ==
  /\ cprog = "combine" /\ table_idx <= Len(tables)
  /\ 2000 <= c_year /\ c_year <= 2016
  /\ \/ tables[table_idx].rows = <<>>
     \/ Len(tables[table_idx].columns) < 3
  /\ table_idx' = table_idx + 1
  /\ new_records' = <<>>
  /\ UNCHANGED <<cprog, c_year, tables, all_data, c_raised, nonContribVars>>

CombineSheet ==
  /\ cprog = "combine" /\ table_idx <= Len(tables)
  /\ 2000 <= c_year /\ c_year <= 2016
  /\ tables[table_idx].rows # <<>>
  /\ Len(tables[table_idx].columns) >= 3
  /\ new_records' = sheet_rows(tables[table_idx], c_year)
  /\ all_data' = all_data \o new_records'
  /\ table_idx' = table_idx + 1
  /\ UNCHANGED <<cprog, c_year, tables, c_raised, nonContribVars>>

NextContrib ==
  \/ ExtractSkipEmpty
  \/ ExtractSkipNoCountry
  \/ ExtractTable
  \/ ExtractRaises
  \/ CombineSkipFile
  \/ CombineSkipSheet
  \/ CombineSheet

SpecContrib == InitContrib /\ [][NextContrib]_vars

-----------------------------------------------------------------------------
(* extract_contributions.py: process_all_pdfs *)

\* extract_year_from_filename: the int of the first four digits in a row;
\* None is written 0, the code testing only `not year`
extract_year_from_filename(filename) ==
  LET k == FourDigitsFrom(filename, 1)
  IN  IF k = 0 THEN 0 ELSE DigitsToInt(SubSeq(filename, k, k + 3))

\* extract_contributions_data, when no table of the list raises: the
\* records of the tables, in order
RECURSIVE extract_contributions_data(_, _)
extract_contributions_data(tbls, yr) ==
  IF tbls = <<>> THEN <<>>
  ELSE LET df      == Head(tbls)
           mapping == find_contribution_columns(df.columns, yr)
       IN  (IF df.rows = <<>> \/ "country" \notin DOMAIN mapping THEN <<>>
            ELSE extract_rows(df, df.rows, mapping, yr))
           \o extract_contributions_data(Tail(tbls), yr)

\* whether a table of the list makes extract_contributions_data raise
data_raises(tbls, yr) ==
  \E k \in DOMAIN tbls : tbls[k].rows # <<>> /\ table_raises(tbls[k], yr)

File2010  == <<"2","0","1","0",".","p","d","f">>
File2010r == <<"2","0","1","0","_","r","e","v",".","p","d","f">>
File2011  == <<"2","0","1","1",".","p","d","f">>
File1999  == <<"1","9","9","9",".","p","d","f">>
File2012  == <<"2","0","1","2",".","p","d","f">>
File2013  == <<"2","0","1","3",".","p","d","f">>
File2014  == <<"2","0","1","4",".","p","d","f">>
FileNotes == <<"n","o","t","e","s",".","p","d","f">>

\* the documents of docs/: the name, and the tables extract_tables_from_json
\* finds in it ("none" when the parse fails and save_parse_json returns None)
MergeDocs ==
  { [name |-> File2010, parsed |-> TRUE,
     tables |-> << [columns |-> LayoutLegacy, labels |-> "header",
                    rows |-> << <<CtMali, N100, N50, N7>>,
                                <<CtChad, N50, NDash, N7>> >>] >>],
    [name |-> File2010r, parsed |-> TRUE,
     tables |-> << [columns |-> LayoutLegacy, labels |-> "header",
                    rows |-> << <<CtMali, N0, N0, N0>> >>] >>],
    [name |-> File2011, parsed |-> TRUE,
     tables |-> << [columns |-> LayoutNoCountry, labels |-> "header",
                    rows |-> << <<CtMali, N100, N50, N7>> >>],
                   [columns |-> LayoutCross, labels |-> "header",
                    rows |-> << <<CtChad, N50, N50, N50>>,
                                <<CtMali, N100, N50, N7>> >>] >>],
    [name |-> File1999, parsed |-> TRUE,
     tables |-> << [columns |-> LayoutLegacy, labels |-> "header",
                    rows |-> << <<CtMali, N100, N50, N7>> >>] >>],
    [name |-> FileNotes, parsed |-> TRUE, tables |-> <<>>],
    [name |-> File2012, parsed |-> TRUE, tables |-> <<>>],
    [name |-> File2013, parsed |-> FALSE, tables |-> <<>>],
    [name |-> File2014, parsed |-> TRUE,
     tables |-> << frame_of(<<LayoutLegacy>>) >>] }

\* list(docs_dir.glob("*.pdf")) after pdf_files.sort()
MergeListings ==
  { fs \in SeqsUpTo(MergeDocs, MaxDocs) :
      \A a, b \in DOMAIN fs : a < b => StrLess(fs[a].name, fs[b].name) }

year_in_range(yr) == yr # 0 /\ yr >= 2000 /\ yr <= 2016

InitMerge ==
  /\ m_files \in MergeListings
  /\ m_idx = 1
  /\ m_all = <<>>
  /\ merged = <<>>
  /\ m_pc = "loop"
  /\ SegIdle /\ PipeIdle /\ NumIdle /\ ColIdle /\ ContribIdle /\ KeyIdle /\ FillIdle /\ YearIdle /\ OrderIdle /\ CacheIdle

\* if not year or year < 2000 or year > 2016: continue
MergeSkipYear ==
  /\ m_pc = "loop" /\ m_idx <= Len(m_files)
  /\ ~year_in_range(extract_year_from_filename(m_files[m_idx].name))
  /\ m_idx' = m_idx + 1
  /\ UNCHANGED <<m_files, m_all, merged, m_pc, nonMergeVars>>

\* if not json_path: continue; if not tables: continue
MergeSkipNoTables ==
  /\ m_pc = "loop" /\ m_idx <= Len(m_files)
  /\ year_in_range(extract_year_from_filename(m_files[m_idx].name))
  /\ ~m_files[m_idx].parsed \/ m_files[m_idx].tables = <<>>
  /\ m_idx' = m_idx + 1
  /\ UNCHANGED <<m_files, m_all, merged, m_pc, nonMergeVars>>

\* all_contributions_data.extend(extract_contributions_data(tables, year))
MergeFile ==
  /\ m_pc = "loop" /\ m_idx <= Len(m_files)
  /\ LET f  == m_files[m_idx]
         yr == extract_year_from_filename(f.name)
     IN  /\ year_in_range(yr)
         /\ f.parsed /\ f.tables # <<>>
         /\ ~data_raises(f.tables, yr)
         /\ m_all' = extend(m_all, extract_contributions_data(f.tables, yr))
  /\ m_idx' = m_idx + 1
  /\ UNCHANGED <<m_files, merged, m_pc, nonMergeVars>>

\* extract_contributions_data raises and nothing catches it
MergeFileRaises ==
  /\ m_pc = "loop" /\ m_idx <= Len(m_files)
  /\ LET f  == m_files[m_idx]
         yr == extract_year_from_filename(f.name)
     IN  /\ year_in_range(yr)
         /\ f.parsed /\ f.tables # <<>>
         /\ data_raises(f.tables, yr)
  /\ m_pc' = "crashed"
  /\ UNCHANGED <<m_files, m_idx, m_all, merged, nonMergeVars>>

\* the loop is over: merged_df.sort_values(['year', 'country']) is written
\* if there is any record
MergeSave ==
  /\ m_pc = "loop" /\ m_idx > Len(m_files)
  /\ merged' = IF Truthy(m_all) THEN sort_values(m_all, "merged") ELSE <<>>
  /\ m_pc' = "done"
  /\ UNCHANGED <<m_files, m_idx, m_all, nonMergeVars>>

NextMerge ==
  \/ MergeSkipYear
  \/ MergeSkipNoTables
  \/ MergeFile
  \/ MergeFileRaises
  \/ MergeSave

SpecMerge == InitMerge /\ [][NextMerge]_vars

-----------------------------------------------------------------------------
(* fill_contributions.py: normalize_country *)

\* Code points outside ASCII are written by name: a Python str is still a
\* sequence of code points, one element each.
\*   o_circ, O_circ     o and O with circumflex
\*   e_acute            e with acute
\*   comb_circ          the combining circumflex
\*   o_stroke           o with stroke, which has no decomposition
\*   fi_lig             the ligature fi, which NFKD writes f i
\*   trade_mark         the trade mark sign, which NFKD writes T M
\*   nbsp               the no-break space, which NFKD writes as a space
NonAscii == {"o_circ", "O_circ", "e_acute", "comb_circ", "comb_acute",
             "o_stroke", "fi_lig", "trade_mark", "nbsp"}

\* str.lower() on one code point
unicode_lower(c) == IF c = "O_circ" THEN "o_circ" ELSE lower_char(c)

\* unicodedata.normalize('NFKD', c) of one code point
nfkd_char(c) ==
  CASE c = "o_circ"     -> <<"o", "comb_circ">>
    [] c = "O_circ"     -> <<"O", "comb_circ">>
    [] c = "e_acute"    -> <<"e", "comb_acute">>
    [] c = "fi_lig"     -> <<"f", "i">>
    [] c = "trade_mark" -> <<"T", "M">>
    [] c = "nbsp"       -> <<" ">>
    [] OTHER            -> <<c>>

\* unicodedata.normalize('NFKD', name)
RECURSIVE nfkd(_)
nfkd(name) ==
  IF name = <<>> THEN <<>> ELSE nfkd_char(Head(name)) \o nfkd(Tail(name))

\* .encode('ASCII', 'ignore').decode('utf-8')
ascii_ignore(name) == SelectSeq(name, LAMBDA c : c \notin NonAscii)

\* re.sub(r'[^a-z]', '', name)
keep_a_to_z(name) == SelectSeq(name, IsLower)

\* normalize_country without the lower-casing
normalize_country_keep_case(name) ==
  keep_a_to_z(ascii_ignore(nfkd(name)))

\* normalize_country; a missing name (pd.isna) gives ''
normalize_country(name) ==
  keep_a_to_z(ascii_ignore(nfkd([k \in DOMAIN name |-> unicode_lower(name[k])])))

\* the three spellings of one country
IvoireAccented == <<"C","o_circ","t","e"," ","d","'","I","v","o","i","r","e">>
IvoireUpper    == <<"C","O","T","E"," ","D"," ","I","V","O","I","R","E">>
IvoireHyphens  == <<"c","o","t","e","-","d","-","i","v","o","i","r","e">>

KeyAlphabet == {"a", "A", "o", "O", "o_circ", "O_circ", "comb_circ",
                "o_stroke", "fi_lig", "trade_mark", " ", "-", "'", "1"}

KeyExamples ==
  { IvoireAccented, IvoireUpper, IvoireHyphens,
    <<"S","a","o"," ","T","o","m","e_acute">>,
    <<"s","a","o","nbsp","t","o","m","e">> }

KeyInputs == SeqsUpTo(KeyAlphabet, MaxNameLen) \cup KeyExamples

InitKey ==
  /\ key_input \in KeyInputs
  /\ key_result = <<>>
  /\ key_pc = "ready"
  /\ SegIdle /\ PipeIdle /\ NumIdle /\ ColIdle /\ ContribIdle /\ MergeIdle /\ FillIdle /\ YearIdle /\ OrderIdle /\ CacheIdle

NormalizeCountry ==
  /\ key_pc = "ready"
  /\ key_result' = normalize_country(key_input)
  /\ key_pc' = "done"
  /\ UNCHANGED <<key_input, nonKeyVars>>

NextKey == NormalizeCountry

SpecKey == InitKey /\ [][NextKey]_vars

-----------------------------------------------------------------------------
(* fill_contributions.py: append_contributions_to_country_files *)

ContributionColumns == {"annual_contributions",
                        "total_outstanding_contributions",
                        "assessed_contributions"}

\* Series.astype(str) on a cell that is a str or missing: str(nan) is 'nan'
astype_str(v) == IF v = NaN THEN <<"n","a","n">> ELSE v

\* Series.astype(int) on a float cell; a missing cell makes it raise
astype_int(v) == v[1] \div Pow10(v[2])

\* whether df['year'].astype(int) raises
year_raises(df) == \E k \in DOMAIN df : df[k].year = NaN

\* contributions with country_norm added (country_original is not used)
contribution_keys(contrib) ==
  [k \in DOMAIN contrib |->
     [f \in DOMAIN contrib[k] \cup {"country_norm"} |->
        IF f = "country_norm" THEN normalize_country(contrib[k].country)
        ELSE contrib[k][f]]]

\* the row of df_cleaned for one row of the file: country_original and
\* country_norm added, the year an int, the contribution columns dropped
cleaned_row(d) ==
  [f \in (DOMAIN d \ ContributionColumns)
         \cup {"country_original", "country_norm"} |->
     CASE f = "country_original" -> astype_str(d.country)
       [] f = "country_norm"     -> normalize_country(astype_str(d.country))
       [] f = "year"             -> astype_int(d.year)
       [] OTHER                  -> d[f]]

\* the left row with the contribution columns of a matching right row, or
\* with missing values when there is none
joined_row(left, right) ==
  [f \in DOMAIN left \cup ContributionColumns |->
     IF f \in ContributionColumns
     THEN (IF right = <<>> THEN NaN ELSE right[1][f])
     ELSE left[f]]

\* df_cleaned.merge(..., on=['country_norm', 'year'], how='left'): the left
\* rows in order, each once per matching right row, once if none matches
RECURSIVE merge_left(_, _)
merge_left(lefts, rights) ==
  IF lefts = <<>> THEN <<>>
  ELSE LET l == Head(lefts)
           matches == SelectSeq(rights, LAMBDA r :
                        r.country_norm = l.country_norm /\ r.year = l.year)
       IN  (IF matches = <<>> THEN <<joined_row(l, <<>>)>>
            ELSE [k \in DOMAIN matches |-> joined_row(l, <<matches[k]>>)])
           \o merge_left(Tail(lefts), rights)

\* the row written: country_norm dropped, country set to country_original,
\* country_original dropped
saved_row(r) ==
  [f \in DOMAIN r \ {"country_norm", "country_original"} |->
     IF f = "country" THEN r.country_original ELSE r[f]]

\* the rows written back for one file that raises nowhere
updated_file(df, contrib) ==
  LET df_merged == merge_left([k \in DOMAIN df |-> cleaned_row(df[k])],
                              contribution_keys(contrib))
  IN  [k \in DOMAIN df_merged |-> saved_row(df_merged[k])]

CtIvoire == <<"C","o_circ","t","e"," ","d","'","I","v","o","i","r","e">>
CtMaliUpper == <<"M","A","L","I">>

F100 == <<100, 0>>
F50  == <<50, 0>>
F150 == <<150, 0>>
Y2010 == <<2010, 0>>
Y2011 == <<2011, 0>>

\* contributions files: countries in other spellings, a key twice, a row
\* without a country
ContributionFiles ==
  { << [country |-> CtMaliUpper, year |-> 2010, annual_contributions |-> F100,
        total_outstanding_contributions |-> F50,
        assessed_contributions |-> F150],
       [country |-> IvoireUpper, year |-> 2011, annual_contributions |-> NaN,
        total_outstanding_contributions |-> NaN,
        assessed_contributions |-> F50] >>,
    << [country |-> CtMali, year |-> 2010, annual_contributions |-> F100,
        total_outstanding_contributions |-> NaN,
        assessed_contributions |-> NaN],
       [country |-> CtMaliUpper, year |-> 2010, annual_contributions |-> F50,
        total_outstanding_contributions |-> F50,
        assessed_contributions |-> F100],
       [country |-> NaN, year |-> 2010, annual_contributions |-> F50,
        total_outstanding_contributions |-> F50,
        assessed_contributions |-> F100] >> }

\* rows of a country file without contribution columns
PlainRows ==
  { [country |-> CtMali, year |-> Y2010, attendees |-> 4],
    [country |-> CtIvoire, year |-> Y2011, attendees |-> 2],
    [country |-> NaN, year |-> Y2010, attendees |-> 1],
    [country |-> CtMali, year |-> NaN, attendees |-> 0] }

\* a row of a country file that was filled before
FilledRow ==
  [country |-> CtMali, year |-> Y2010, attendees |-> 4,
   annual_contributions |-> F50, total_outstanding_contributions |-> F50,
   assessed_contributions |-> F50]

\* the files of the country folder: at least one row each
CountryFiles ==
  (SeqsUpTo(PlainRows, MaxRows) \ { <<>> }) \cup { <<FilledRow>> }

InitFill ==
  /\ contributions \in ContributionFiles
  /\ country_files \in SeqsUpTo(CountryFiles, MaxFiles)
  /\ file_idx = 1
  /\ saved_files = <<>>
  /\ fill_pc = "loop"
  /\ SegIdle /\ PipeIdle /\ NumIdle /\ ColIdle /\ ContribIdle /\ MergeIdle /\ KeyIdle /\ YearIdle /\ OrderIdle /\ CacheIdle

\* the body of the try for one file, to_excel included
FillFile ==
  /\ fill_pc = "loop" /\ file_idx <= Len(country_files)
  /\ ~year_raises(country_files[file_idx])
  /\ saved_files' = Append(saved_files,
                           [saved |-> TRUE,
                            rows |-> updated_file(country_files[file_idx],
                                                  contributions)])
  /\ file_idx' = file_idx + 1
  /\ UNCHANGED <<contributions, country_files, fill_pc, nonFillVars>>

\* except Exception: the file is left as it was
FillFileFails ==
  /\ fill_pc = "loop" /\ file_idx <= Len(country_files)
  /\ year_raises(country_files[file_idx])
  /\ saved_files' = Append(saved_files, [saved |-> FALSE, rows |-> <<>>])
  /\ file_idx' = file_idx + 1
  /\ UNCHANGED <<contributions, country_files, fill_pc, nonFillVars>>

FillDone ==
  /\ fill_pc = "loop" /\ file_idx > Len(country_files)
  /\ fill_pc' = "done"
  /\ UNCHANGED <<contributions, country_files, file_idx, saved_files, nonFillVars>>

NextFill == FillFile \/ FillFileFails \/ FillDone

SpecFill == InitFill /\ [][NextFill]_vars

-----------------------------------------------------------------------------
(* The year of a document, from the name of its file *)

\* combine_contributions.py, process_file: the int of the first four digits
\* in a row anywhere in filepath; None is written 0, the code testing only
\* `not year`
process_file_year(filepath) ==
  LET k == FourDigitsFrom(filepath, 1)
  IN  IF k = 0 THEN 0 ELSE DigitsToInt(SubSeq(filepath, k, k + 3))

FolderUn      == <<"u","n">>
FolderOutputs == <<"e","x","c","e","l","_","o","u","t","p","u","t","s">>
FolderOut2015 == <<"o","u","t","2","0","1","5">>

\* the folder each script reads: count.py "un", extract_delegates.py the
\* folder_path given, merge_all the folder_path given
YearFolders(p) ==
  IF p = "count" THEN { FolderUn }
  ELSE IF p = "delegates" THEN { FolderPath }
  ELSE { FolderOutputs, FolderOut2015 }

FileAlphabet == {"1", "2", "a", "."}

FileNames == SeqsUpTo(FileAlphabet, MaxFileLen) \ { <<>> }

InitYear ==
  /\ yr_prog \in {"count", "delegates", "combine"}
  /\ yr_folder \in YearFolders(yr_prog)
  /\ yr_file \in FileNames
  /\ yr_result = <<>>
  /\ yr_pc = "ready"
  /\ SegIdle /\ PipeIdle /\ NumIdle /\ ColIdle /\ ContribIdle /\ MergeIdle /\ KeyIdle /\ FillIdle /\ OrderIdle /\ CacheIdle

\* count.py main: year = get_year_from_filename(filename)
CountYear ==
  /\ yr_pc = "ready" /\ yr_prog = "count"
  /\ yr_result' = get_year_from_filename(yr_file)
  /\ yr_pc' = "done"
  /\ UNCHANGED <<yr_prog, yr_folder, yr_file, nonYearVars>>

\* process_single_pdf: year = self._extract_year_from_filename(pdf_path)
DelegYear ==
  /\ yr_pc = "ready" /\ yr_prog = "delegates"
  /\ yr_result' = extract_year_from_filepath(path_join(yr_folder, yr_file))
  /\ yr_pc' = "done"
  /\ UNCHANGED <<yr_prog, yr_folder, yr_file, nonYearVars>>

\* merge_all: process_file(os.path.join(folder_path, file)), its year
CombineYear ==
  /\ yr_pc = "ready" /\ yr_prog = "combine"
  /\ yr_result' = process_file_year(path_join(yr_folder, yr_file))
  /\ yr_pc' = "done"
  /\ UNCHANGED <<yr_prog, yr_folder, yr_file, nonYearVars>>

NextYear == CountYear \/ DelegYear \/ CombineYear

SpecYear == InitYear /\ [][NextYear]_vars

-----------------------------------------------------------------------------
(* count.py main, run twice over one folder listed in two orders *)

\* a second document without a year in its name, with a FRANCE chunk
DocNotes == [filename |-> FileNotes,
             text |-> JoinLines(<<LnFrance, LnMsB>>)]

OrderDocs == { Doc1Chunk, DocNotes, DocEmpty }

\* os.listdir(folder) in two runs: the same files, in any two orders
OrderListings ==
  { fs \in SeqsUpTo(OrderDocs, Cardinality(OrderDocs)) :
      IsPermutationOfSubset(fs) }

\* what the chain may return for the chunks of a document, chunk by chunk
ResultsOf(doc) ==
  LET cs == split_text_by_country(doc.text)
  IN  { rs \in [1..Len(cs) ->
                  UNION { ChainResultsAnyType(cs[k][1], MaxSessions) : k \in 1..Len(cs) }] :
          \A k \in 1..Len(cs) : rs[k] \in ChainResultsAnyType(cs[k][1], MaxSessions) }

\* extract_sessions_from_text_chunks(chunks, year), given what the chain
\* returns for each chunk
RECURSIVE extract_sessions_from_text_chunks(_, _, _)
extract_sessions_from_text_chunks(cs, results, yr) ==
  IF cs = <<>> THEN <<>>
  ELSE chunk_sessions(Head(results), Head(cs)[1], yr)
       \o extract_sessions_from_text_chunks(Tail(cs), Tail(results), yr)

\* main: the body of the loop for one file; `if not text: continue`
file_sessions(doc, results) ==
  IF ~Truthy(doc.text) THEN <<>>
  ELSE extract_sessions_from_text_chunks(
         split_text_by_country(doc.text), results,
         get_year_from_filename(doc.filename))

InitOrder ==
  /\ o_files \in { <<a, b>> : a, b \in OrderListings }
  /\ Range(o_files[1]) = Range(o_files[2])
  /\ o_results \in [OrderDocs -> UNION { ResultsOf(d) : d \in OrderDocs }]
  /\ \A d \in OrderDocs : o_results[d] \in ResultsOf(d)
  /\ o_all = << <<>>, <<>> >>
  /\ o_export = << <<>>, <<>> >>
  /\ o_pc = <<"loop", "loop">>
  /\ SegIdle /\ PipeIdle /\ NumIdle /\ ColIdle /\ ContribIdle /\ MergeIdle /\ KeyIdle /\ FillIdle /\ YearIdle /\ CacheIdle

\* main: one iteration of `for filename in os.listdir(folder)`, in one run
OrderReadFile ==
  \E r \in 1..2 :
    /\ o_pc[r] = "loop" /\ o_files[r] # <<>>
    /\ o_all' = [o_all EXCEPT ![r] =
                   @ \o file_sessions(Head(o_files[r]),
                                      o_results[Head(o_files[r])])]
    /\ o_files' = [o_files EXCEPT ![r] = Tail(@)]
    /\ UNCHANGED <<o_results, o_export, o_pc, nonOrderVars>>

\* main: save_sessions_to_excel raises on a value of a session; the run
\* writes nothing
OrderSaveRaises ==
  \E r \in 1..2 :
    /\ o_pc[r] = "loop" /\ o_files[r] = <<>>
    /\ Truthy(o_all[r]) /\ save_sessions_raises(o_all[r])
    /\ o_pc' = [o_pc EXCEPT ![r] = "crashed"]
    /\ UNCHANGED <<o_files, o_results, o_all, o_export, nonOrderVars>>

\* main: `if not all_sessions: return`, else save_sessions_to_excel
OrderSave ==
  \E r \in 1..2 :
    /\ o_pc[r] = "loop" /\ o_files[r] = <<>>
    /\ ~(Truthy(o_all[r]) /\ save_sessions_raises(o_all[r]))
    /\ o_export' = [o_export EXCEPT ![r] =
                      IF Truthy(o_all[r]) THEN save_sessions_to_excel(o_all[r])
                      ELSE <<>>]
    /\ o_pc' = [o_pc EXCEPT ![r] = "done"]
    /\ UNCHANGED <<o_files, o_results, o_all, nonOrderVars>>

NextOrder == OrderReadFile \/ OrderSaveRaises \/ OrderSave

SpecOrder == InitOrder /\ [][NextOrder]_vars

-----------------------------------------------------------------------------
(* extract_delegates.py: extract_text_from_pdf called again and again *)

InitCache ==
  /\ text_cache = <<>>
  /\ pdf_path = <<>>
  /\ read_ok = TRUE
  /\ parse_result = [kind |-> "none"]
  /\ returned = <<>>
  /\ parse_called = FALSE
  /\ cache_pc = "ready"
  /\ SegIdle /\ PipeIdle /\ NumIdle /\ ColIdle /\ ContribIdle /\ MergeIdle /\ KeyIdle /\ FillIdle /\ YearIdle /\ OrderIdle

\* the state after a call
Called(path, readable, parsed, write_outcome) ==
  LET r == extract_text_from_pdf(text_cache, path, readable, parsed,
                                 write_outcome)
  IN  /\ pdf_path' = path
      /\ read_ok' = readable
      /\ parse_result' = IF r.parse_called THEN parsed ELSE [kind |-> "none"]
      /\ returned' = r.returned
      /\ parse_called' = r.parse_called
      /\ text_cache' = r.files
      /\ cache_pc' = "called"
      /\ UNCHANGED nonCacheVars

\* a call that finds the cache file and reads it
CallCached ==
  /\ cache_pc \in {"ready", "called"}
  /\ \E path \in Paths :
       /\ cache_filename(path) \in DOMAIN text_cache
       /\ Called(path, TRUE, [kind |-> "raise"], [kind |-> "ok"])

\* a call that finds the cache file and fails to read it: it falls through
\* to the parser
CallReadFails ==
  /\ cache_pc \in {"ready", "called"}
  /\ \E path \in Paths, parsed \in ParseOutcomes, w \in WriteOutcomes :
       /\ cache_filename(path) \in DOMAIN text_cache
       /\ Called(path, FALSE, parsed, w)

\* a call that finds no cache file
CallUncached ==
  /\ cache_pc \in {"ready", "called"}
  /\ \E path \in Paths, parsed \in ParseOutcomes, w \in WriteOutcomes :
       /\ cache_filename(path) \notin DOMAIN text_cache
       /\ Called(path, TRUE, parsed, w)

NextCache == CallCached \/ CallReadFails \/ CallUncached

SpecCache == InitCache /\ [][NextCache]_vars

-----------------------------------------------------------------------------
(* The runs that aggregate records: the delegation pipelines and
   process_all_pdfs *)

InitAggregate == InitPipe \/ InitMerge

NextAggregate == NextPipe \/ NextMerge

SpecAggregate == InitAggregate /\ [][NextAggregate]_vars

-----------------------------------------------------------------------------
(* Properties of the delegation pipelines *)

\* the label of the chunk the next extraction step works on
ChunkLabel ==
  IF prog = "count" THEN chunks[i][1] ELSE country_of(chunks[i], i)

\* the inference call failed: it raised, returned nothing, or returned text
\* in which no JSON object can be parsed
FailedCall(res) ==
  \/ res.kind \in {"raise", "empty", "text", "badjson"}
  \/ res.kind = "list" /\ res.items = <<>>

NameLists == {"officials", "representatives", "alternate_representatives",
              "advisers"}

AllEmptyRecord(r) ==
  /\ \A f \in NameLists : f \in DOMAIN r /\ r[f] = <<>>
  /\ "leader_present" \in DOMAIN r /\ r.leader_present = False

Populated(r) == \E f \in NameLists : f \in DOMAIN r /\ r[f] # <<>>

\* C1: when the loop over a document's chunks ends, the document has
\* produced exactly one record per chunk, whatever the inference call
\* returned for each chunk.
C1_RecordCount ==
  (pc = "extract" /\ i > Len(chunks)) => Len(sessions) = Len(chunks)

\* C2: an extraction step whose inference call failed does not raise and
\* appends exactly one record for the chunk: all four name lists empty,
\* leader_present false, country the chunk's label, year the caller's year;
\* the records already produced are left as they were.
C2_DegradedRecord ==
  [][ (pc = "extract" /\ i' = i + 1 /\ FailedCall(result')) =>
        /\ pc' = "extract"
        /\ Len(sessions') = Len(sessions) + 1
        /\ SubSeq(sessions', 1, Len(sessions)) = sessions
        /\ all_sessions' = all_sessions
        /\ LET r == sessions'[Len(sessions')]
           IN  /\ AllEmptyRecord(r)
               /\ r.country = ChunkLabel
               /\ r.year = year ]_vars

\* three chunks, the third call failed: three records, two populated and
\* one all-empty
C2_Witness ==
  /\ pc = "extract" /\ Len(chunks) = 3 /\ i = 4
  /\ FailedCall(result)
  /\ Len(sessions) = 3
  /\ Populated(sessions[1]) /\ Populated(sessions[2])
  /\ AllEmptyRecord(sessions[3])
  /\ sessions[3].year = year

\* C3: every record produced for the current document carries the year
\* derived from the document's file name, whatever year the inference call
\* returned.
C3_YearStamp ==
  pc = "extract" => \A k \in DOMAIN sessions : sessions[k].year = year

\* the fields C4 is about, and their zero values
DefaultedFields == NameLists \cup {"leader_present", "leader_name"}

ZeroValue(f) == IF f = "leader_present" THEN False ELSE <<>>

\* a field as a reader with a default sees it (s.get(f) or the default)
FieldOr(d, f) == IF f \in DOMAIN d THEN d[f] ELSE ZeroValue(f)

LacksAField(d) == ~(DefaultedFields \subseteq DOMAIN d)

SameFields(r, d) == \A f \in DefaultedFields : FieldOr(r, f) = FieldOr(d, f)

\* C4: when the call returned a parsable object that lacks some of the
\* expected fields, the record produced for it keeps every field the object
\* supplied and has the zero value for each missing one.
C4_FieldDefaults ==
  (pc = "extract" /\ i > 1) =>
    /\ (prog # "count" /\ result.kind = "object" /\ LacksAField(result.data))
         => SameFields(sessions[Len(sessions)], result.data)
    /\ (prog = "count" /\ result.kind = "list"
          /\ \A k \in DOMAIN result.items : IsDict(result.items[k]))
         => \A k \in DOMAIN result.items :
              LacksAField(result.items[k]) =>
                SameFields(sessions[Len(sessions) - Len(result.items) + k],
                           result.items[k])

-----------------------------------------------------------------------------
(* Properties of the segmenter *)

\* the lines the loop looks at: stripped, blank ones skipped
KeptLines(t) ==
  LET ls == splitlines(t)
  IN  SelectSeq([k \in 1..Len(ls) |-> strip(ls[k])], LAMBDA l : l # <<>>)

\* a line the segmenter takes for a country heading
IsHeadingLine(l) == heading_match(line_clean_of(l))

\* the positions, in KeptLines(t), of the heading lines, ascending
HeadingPositions(t) ==
  LET kept == KeptLines(t)
  IN  SelectSeq([k \in 1..Len(kept) |-> k], LAMBDA k : IsHeadingLine(kept[k]))

\* the position after the body of the j-th heading
BodyEnd(t, j) ==
  LET hp == HeadingPositions(t)
  IN  IF j < Len(hp) THEN hp[j + 1] ELSE Len(KeptLines(t)) + 1

\* every heading is followed by at least one body line
EachHeadingHasBody(t) ==
  \A j \in 1..Len(HeadingPositions(t)) : BodyEnd(t, j) > HeadingPositions(t)[j] + 1

\* C5: a text with k headings, each followed by at least one body line, gives
\* exactly k chunks labelled by the headings in document order; a text with
\* no heading gives no chunk.
C5_ChunkOrderAndCount ==
  seg_pc = "done" =>
    LET kept == KeptLines(text)
        hp   == HeadingPositions(text)
    IN  /\ EachHeadingHasBody(text) =>
             /\ Len(seg_chunks) = Len(hp)
             /\ \A j \in 1..Len(hp) :
                  seg_chunks[j][1] = line_clean_of(kept[hp[j]])
        /\ hp = <<>> => seg_chunks = <<>>

\* FRANCE, a body line, GERMANY, a body line: two chunks in that order
C5_Witness ==
  /\ seg_pc = "done"
  /\ text = JoinLines(<<LnFrance, LnMrA, LnGermany, LnMrA>>)
  /\ Len(seg_chunks) = 2
  /\ seg_chunks[1][1] = LnFrance
  /\ seg_chunks[2][1] = LnGermany

\* C6: the body of every returned chunk is exactly the non-blank, non-heading
\* lines (as the loop reads them, stripped) that lie strictly between the
\* chunk's heading and the next heading or the end of the text, in order,
\* joined by newlines.
C6_ChunkBody ==
  seg_pc = "done" =>
    LET kept == KeptLines(text)
        hp   == HeadingPositions(text)
    IN  /\ Len(seg_chunks) <= Len(hp)
        /\ \A j \in 1..Len(seg_chunks) :
             seg_chunks[j][2] =
               JoinLines(SubSeq(kept, hp[j] + 1, BodyEnd(text, j) - 1))

\* two chunks, each with its own body line, the second one stripped
C6_Witness ==
  /\ seg_pc = "done"
  /\ text = JoinLines(<<LnFrance, LnMrA, LnGermany, LnMsB>>)
  /\ seg_chunks = << <<LnFrance, LnMrA>>, <<LnGermany, strip(LnMsB)>> >>

\* re.sub(r'\s+', ' ', name.strip()).upper() leaves the label as it is
RECURSIVE collapse_spaces(_)
collapse_spaces(s) ==
  IF s = <<>> THEN <<>>
  ELSE IF IsSpace(Head(s))
  THEN IF Len(s) > 1 /\ IsSpace(s[2])
       THEN collapse_spaces(Tail(s))
       ELSE <<" ">> \o collapse_spaces(Tail(s))
  ELSE <<Head(s)>> \o collapse_spaces(Tail(s))

normalize_country_name(name) ==
  LET c == collapse_spaces(strip(name))
  IN  [k \in 1..Len(c) |-> upper_char(c[k])]

\* C18: the label of every chunk the segmenter returns is uppercase and
\* whitespace-normalized: no leading or trailing whitespace, and every
\* internal run of whitespace collapsed to a single space.
C18_LabelNormalized ==
  seg_pc = "done" =>
    \A j \in 1..Len(seg_chunks) :
      normalize_country_name(seg_chunks[j][1]) = seg_chunks[j][1]

\* the body lines of the chunks, one after the other
RECURSIVE ChunkLines(_)
ChunkLines(cs) ==
  IF cs = <<>> THEN <<>>
  ELSE splitlines(Head(cs)[2]) \o ChunkLines(Tail(cs))

\* C20: every line that precedes the first heading is in no chunk, and the
\* body lines that follow the last heading are returned as that heading's
\* chunk at the end of the text, though no further heading follows.
C20_SegmenterEdges ==
  seg_pc = "done" =>
    LET kept == KeptLines(text)
        hp   == HeadingPositions(text)
        last == hp[Len(hp)]
    IN  hp # <<>> =>
          /\ \A j \in 1..Len(seg_chunks) : Truthy(seg_chunks[j][1])
          /\ ChunkLines(seg_chunks)
               = SelectSeq(SubSeq(kept, hp[1] + 1, Len(kept)),
                           LAMBDA l : ~IsHeadingLine(l))
          /\ last < Len(kept) =>
               seg_chunks[Len(seg_chunks)]
                 = <<line_clean_of(kept[last]),
                     JoinLines(SubSeq(kept, last + 1, Len(kept)))>>

\* a body line, FRANCE, a body line: one chunk, without the first line
C20_Witness ==
  /\ seg_pc = "done"
  /\ text = JoinLines(<<LnMrA, LnFrance, LnMsB>>)
  /\ seg_chunks = << <<LnFrance, strip(LnMsB)>> >>

\* the characters the specification lists for a heading
ListedChar(c) == IsUpper(c) \/ c \in {" ", "-", "&", "'", ".", ","}

\* a line of listed characters only, with a letter among them
ListedHeading(l) ==
  LET c == line_clean_of(l)
  IN  /\ \A k \in DOMAIN c : ListedChar(c[k])
      /\ \E k \in DOMAIN c : IsUpper(c[k])

\* a line of listed characters only (a tab counted as a space), the first of
\* them a letter
LetterFirstHeading(l) ==
  LET c == line_clean_of(l)
  IN  /\ c # <<>>
      /\ IsUpper(c[1])
      /\ \A k \in DOMAIN c : ListedChar(c[k]) \/ IsSpace(c[k])

\* the chunks of a text whose headings are the non-blank lines that satisfy
\* Heading: each heading with the lines up to the next one, the last heading
\* left out when no line follows it
ChunksWhere(t, Heading(_)) ==
  LET kept == KeptLines(t)
      hp   == SelectSeq([k \in 1..Len(kept) |-> k],
                        LAMBDA k : Heading(kept[k]))
      n    == IF hp # <<>> /\ hp[Len(hp)] = Len(kept)
              THEN Len(hp) - 1 ELSE Len(hp)
  IN  [j \in 1..n |->
         <<line_clean_of(kept[hp[j]]),
           JoinLines(SubSeq(kept, hp[j] + 1,
                            (IF j < Len(hp) THEN hp[j + 1]
                             ELSE Len(kept) + 1) - 1))>>]

\* C21 as stated: a non-blank line, cut at an embedded comment marker, is a
\* new country heading if and only if it consists solely of uppercase
\* letters, spaces, hyphens, ampersands, apostrophes, periods and commas and
\* holds at least one letter, whichever of those characters comes first and
\* also inside another country's body.
C21_HeadingClass_AsStated ==
  seg_pc = "done" => seg_chunks = ChunksWhere(text, ListedHeading)

\* C21: a non-blank line, cut at an embedded comment marker, is a new
\* country heading if and only if its first character is an uppercase letter
\* and every other character is an uppercase letter, whitespace, a hyphen,
\* an ampersand, an apostrophe, a period or a comma, also inside another
\* country's body.
C21_HeadingClass ==
  seg_pc = "done" => seg_chunks = ChunksWhere(text, LetterFirstHeading)

\* "-AB" in the body of FRANCE is a body line, GERMANY after it a heading
C21_Witness ==
  /\ seg_pc = "done"
  /\ text = JoinLines(<<LnFrance, LnDashAB, LnGermany, LnMrA>>)
  /\ seg_chunks = << <<LnFrance, LnDashAB>>, <<LnGermany, LnMrA>> >>

\* C25: every heading the segmenter detects gives exactly one chunk, whether
\* or not a body line follows it: there are as many chunks as headings, the
\* last heading of the text included when nothing follows it.
C25_ChunkPerHeading ==
  seg_pc = "done" => Len(seg_chunks) = Len(HeadingPositions(text))

-----------------------------------------------------------------------------
(* Properties of the contribution records *)

\* the table or sheet the last step took
LastTable == tables[table_idx - 1]

\* a field of a record holds a value
Present(v) == v # <<>>

\* the number a present field stands for: extract_contributions.py keeps
\* the cleaned str, combine_contributions.py the float
FieldValue(v) == IF cprog = "extract" THEN float_of(v) ELSE v

LegacyRule(r) ==
  /\ Present(r.assessed_contributions)
       <=> (Present(r.annual_contributions)
            /\ Present(r.total_outstanding_contributions))
  /\ Present(r.assessed_contributions) =>
       FieldValue(r.assessed_contributions)
         = DecAdd(FieldValue(r.annual_contributions),
                  FieldValue(r.total_outstanding_contributions))

\* C7: every record of a year up to 2010 has assessed_contributions exactly
\* when both annual_contributions and total_outstanding_contributions are
\* present (a present zero counts), and then it is their sum
C7_LegacyRule ==
  \A k \in DOMAIN all_data : all_data[k].year <= 2010 => LegacyRule(all_data[k])

\* the rows of the last table that give a record: every row of a sheet, the
\* rows with a country of a table that has a country column
RecordRows ==
  IF cprog = "combine"
  THEN IF Len(LastTable.columns) < 3 \/ ~(2000 <= c_year /\ c_year <= 2016)
       THEN <<>> ELSE LastTable.rows
  ELSE LET named == { h \in DOMAIN LastTable.columns :
                        \E t \in DOMAIN country_candidates :
                          Contains(lower(LastTable.columns[h]),
                                   country_candidates[t]) }
       IN  IF named = {} THEN <<>>
           ELSE SelectSeq(LastTable.rows,
                          LAMBDA row : \E h \in named : strip(row[h]) # <<>>)

\* the position of the one column assessed_contributions is read from after
\* 2010, 0 if the table has none: the fifth column of a sheet (the eighth in
\* 2016), the column find_contribution_columns resolves in a table
DesignatedColumn ==
  IF cprog = "combine"
  THEN LET k == IF c_year = 2016 THEN 8 ELSE 5
       IN  IF k <= Len(LastTable.columns) THEN k ELSE 0
  ELSE field_position(LastTable.columns, c_year, "assessed_contributions")

Normalized(cell) ==
  IF cprog = "combine" THEN clean_numeric(cell) ELSE clean_numeric_value(cell)

\* C8: every record of a year from 2011 to 2016 has annual_contributions and
\* total_outstanding_contributions undefined, and its assessed_contributions
\* is the normalized cell of the designated column of its row
C8_DirectAssessed ==
  (table_idx > 1 /\ c_year \in 2011..2016) =>
    LET rows     == RecordRows
        position == DesignatedColumn
    IN  /\ Len(new_records) = Len(rows)
        /\ \A k \in DOMAIN new_records :
             /\ ~Present(new_records[k].annual_contributions)
             /\ ~Present(new_records[k].total_outstanding_contributions)
             /\ new_records[k].assessed_contributions
                  = IF position = 0 THEN <<>>
                    ELSE Normalized(rows[k][position])
        /\ \A k \in DOMAIN all_data :
             /\ ~Present(all_data[k].annual_contributions)
             /\ ~Present(all_data[k].total_outstanding_contributions)

\* a sheet of 2016 and a table of 2013 whose rows carry other amounts beside
\* the designated one, read into records with a defined assessed value
C8_Witness ==
  /\ table_idx > 1 /\ c_year \in 2011..2016
  /\ \/ cprog = "combine" /\ c_year = 2016
     \/ cprog = "extract" /\ c_year = 2013
  /\ \E k \in DOMAIN new_records :
       /\ Present(new_records[k].assessed_contributions)
       /\ RecordRows[k][2] # RecordRows[k][DesignatedColumn]
       /\ Len(new_records) = 2

\* the financial fields looked for in a table of the year
FinancialFields(yr) == DOMAIN field_candidates(yr) \ {"country"}

\* C11: extract_contributions_data never raises; a table without a country
\* column adds no record and the next tables are still taken; a table with
\* one adds a record per row that has a country, the fields whose column
\* is not resolved left missing
C11_SchemaDrift ==
  cprog = "extract" =>
    /\ ~c_raised
    /\ table_idx > 1 =>
         LET rows == RecordRows
         IN  /\ Len(new_records) = Len(rows)
             /\ \A k \in DOMAIN new_records :
                  \A f \in FinancialFields(c_year) :
                    field_position(LastTable.columns, c_year, f) = 0
                      => ~Present(new_records[k][f])

-----------------------------------------------------------------------------
(* Properties of the numeric normalizers *)

\* a str that is a decimal number: an optional minus sign, then digits with
\* at most one dot among them
WellFormedDecimal(s) ==
  \E sign \in {0, 1} :
    /\ sign = 1 => (s # <<>> /\ s[1] = "-")
    /\ LET digits == SubSeq(s, sign + 1, Len(s))
       IN  /\ \A k \in DOMAIN digits : IsDigit(digits[k]) \/ digits[k] = "."
           /\ \A j, k \in DOMAIN digits :
                (digits[j] = "." /\ digits[k] = ".") => j = k
           /\ \E k \in DOMAIN digits : IsDigit(digits[k])

\* the input without its non-numeric characters
NumericPart(s) == SelectSeq(s, LAMBDA c : IsDigit(c) \/ c = "." \/ c = "-")

ResultMissing == num_result = <<>>

ResultCleanDecimal ==
  IF num_pc = "clean_numeric_value" THEN WellFormedDecimal(num_result)
  ELSE Len(num_result) = 2

ResultValue ==
  IF num_pc = "clean_numeric_value" THEN float_of(num_result) ELSE num_result

\* C9: a normalizer returns a clean decimal or missing; an input whose
\* numeric characters do not form a decimal gives missing; '1,234.50' gives
\* 1234.5 and '0' gives zero
C9_Normalizer ==
  num_pc # "ready" =>
    /\ ResultMissing \/ ResultCleanDecimal
    /\ ~WellFormedDecimal(NumericPart(num_input)) => ResultMissing
    /\ num_input = NComma => ResultValue = <<12345, 1>>
    /\ num_input = N0 => ResultValue = <<0, 0>>

-----------------------------------------------------------------------------
(* Properties of the column resolver *)

\* the term is a case-insensitive substring of the header
TermMatches(term, header) == Contains(lower(header), term)

\* the column a field resolves to when its headers are taken among the given
\* positions: the leftmost header matching the first candidate term that
\* matches any of them, 0 when no term matches
PriorityChoice(f, among) ==
  LET terms   == field_candidates(col_year)[f]
      matched == { t \in DOMAIN terms :
                     \E h \in among : TermMatches(terms[t], columns[h]) }
      best    == CHOOSE t \in matched : \A u \in matched : t <= u
      hits    == { h \in among : TermMatches(terms[best], columns[h]) }
  IN  IF matched = {} THEN 0
      ELSE CHOOSE h \in hits : \A g \in hits : h <= g

MappedTo(f, h) ==
  IF h = 0 THEN f \notin DOMAIN column_mapping
  ELSE f \in DOMAIN column_mapping /\ column_mapping[f] = columns[h]

\* C10, as stated: every field of the year is mapped to the leftmost header
\* matching its highest-priority matching term, all headers considered
C10_ColumnPriority_AsStated ==
  col_pc = "done" =>
    \A f \in DOMAIN field_candidates(col_year) :
      MappedTo(f, PriorityChoice(f, DOMAIN columns))

\* the headers a field may resolve to: annual_contributions never takes a
\* header that contains 'outstanding'
EligibleHeaders(f) ==
  IF f = "annual_contributions"
  THEN { h \in DOMAIN columns : ~TermMatches(TermOutstanding, columns[h]) }
  ELSE DOMAIN columns

\* C10: every field of the year is mapped to the leftmost eligible header
\* matching the highest-priority term that matches an eligible header; a
\* field no eligible header matches is absent, and no other field is mapped
C10_ColumnPriority ==
  col_pc = "done" =>
    /\ DOMAIN column_mapping \subseteq DOMAIN field_candidates(col_year)
    /\ \A f \in DOMAIN field_candidates(col_year) :
         MappedTo(f, PriorityChoice(f, EligibleHeaders(f)))

\* headers ['State code', 'Member State'] resolve country to 'Member State'
C10_Witness ==
  /\ col_pc = "done"
  /\ columns = <<HdrStateCode, HdrMemberState>>
  /\ "country" \in DOMAIN column_mapping
  /\ column_mapping["country"] = HdrMemberState

\* C22: for every header list and every year <= 2010, the column resolved
\* for annual_contributions never contains 'outstanding', in any case, so
\* annual_contributions and total_outstanding_contributions are never
\* resolved to the same column.
C22_LegacySeparation ==
  (col_pc = "done" /\ col_year <= 2010) =>
    /\ "annual_contributions" \in DOMAIN column_mapping =>
         ~Contains(lower(column_mapping["annual_contributions"]),
                   TermOutstanding)
    /\ {"annual_contributions", "total_outstanding_contributions"}
           \subseteq DOMAIN column_mapping =>
         column_mapping["annual_contributions"]
           # column_mapping["total_outstanding_contributions"]

\* 'Outstanding collections' comes first and holds the top candidate, yet
\* the collections resolve to 'Adjustments'
C22_Witness ==
  /\ col_pc = "done"
  /\ col_year = 2010
  /\ columns = <<HdrOutstColl, HdrAdjustments>>
  /\ column_mapping["annual_contributions"] = HdrAdjustments
  /\ column_mapping["total_outstanding_contributions"] = HdrOutstColl

-----------------------------------------------------------------------------
(* Properties of the batch runs *)

\* the documents (PDF files, or years with their text file) still to process
Remaining == IF prog = "delegates" THEN years ELSE pdf_files

\* the run has saved its output files
Saved == pc = "done" /\ prog \in {"count", "delegates"}

\* C12: at the head of the loop over the documents, with a document left,
\* the step either starts on that document or skips it: a skipped document
\* adds no record and the documents after it remain to be processed; the
\* batch is never ended by the failure of one document.
C12_BatchContinuation ==
  [][ /\ pc' # "crashed"
      /\ (pc = "loop" /\ Remaining # <<>>) =>
           /\ pc' \in {"loop", "extract"}
           /\ pc' = "loop" => /\ Remaining' = Tail(Remaining)
                              /\ all_sessions' = all_sessions ]_vars

\* the bag of the elements of a sequence
BagOfSeq(q) ==
  [x \in Range(q) |-> Cardinality({ k \in DOMAIN q : q[k] = x })]

\* the length of a name list of a record, 0 when the record has none or
\* has None in its place
ListCount(s, f) == IF f \in DOMAIN s /\ s[f] # Null THEN Len(s[f]) ELSE 0

\* the four counts of a record and their sum
CountsOfRecord(s) ==
  LET a == ListCount(s, "officials")
      b == ListCount(s, "representatives")
      c == ListCount(s, "alternate_representatives")
      d == ListCount(s, "advisers")
  IN  <<a, b, c, d, a + b + c + d>>

\* the four count columns of an exported row and its attendees column
CountsOfRow(row) ==
  <<row.officials, row.representatives, row.alternate_representatives,
    row.advisers,
    IF prog = "count" THEN row.attendees ELSE row.total_attendees>>

\* C13: once the run has saved its export, the rows carry, record for
\* record, the lengths of the record's four name lists and as attendees
\* the sum of these four lengths, whatever total the record itself holds.
C13_AttendeeCount ==
  Saved =>
    BagOfSeq([k \in DOMAIN export |-> CountsOfRow(export[k])])
      = BagOfSeq([k \in DOMAIN all_sessions |->
                    CountsOfRecord(all_sessions[k])])

\* a saved export one of whose records carries a total that differs from
\* the sum of its list lengths
C13_Witness ==
  /\ pc = "done" /\ export # <<>>
  /\ \E k \in DOMAIN all_sessions :
       /\ "attendees" \in DOMAIN all_sessions[k]
       /\ all_sessions[k].attendees # CountsOfRecord(all_sessions[k])[5]

\* a year before another in the year column of the delegation exports: as
\* str in count.py, as numbers with the missing year last in
\* extract_delegates.py
YearBefore(a, b) ==
  IF prog = "count" THEN StrLess(a, b)
  ELSE a # NaN /\ (b = NaN \/ float_less(a, b))

\* the (country, year) key of a row of a delegation export before that of
\* another
ExportKeyBefore(a, b) ==
  \/ StrLess(a.country, b.country)
  \/ a.country = b.country /\ YearBefore(a.year, b.year)

\* the same for the merged contributions, whose year is an int
MergedKeyBefore(a, b) ==
  \/ StrLess(a.country, b.country)
  \/ a.country = b.country /\ a.year < b.year

SameKey(a, b) == a.country = b.country /\ a.year = b.year

\* the rows with the key of r, in the order they have in rows
WithKeyOf(rows, r) == SelectSeq(rows, LAMBDA x : SameKey(x, r))

\* rows with equal keys are in out in the order they have in input
KeepsInputOrder(out, input) ==
  \A k \in DOMAIN input : WithKeyOf(out, input[k]) = WithKeyOf(input, input[k])

\* the rows given to the sort of the delegation export
ExportInput ==
  IF prog = "count" THEN session_rows(all_sessions)
  ELSE delegation_rows(all_sessions)

ExportInOrder ==
  /\ \A j, k \in DOMAIN export : j < k => ~ExportKeyBefore(export[k], export[j])
  /\ KeepsInputOrder(export, ExportInput)

MergedInOrder ==
  /\ \A j, k \in DOMAIN merged : j < k => ~MergedKeyBefore(merged[k], merged[j])
  /\ KeepsInputOrder(merged, m_all)

\* C14: the rows of a saved export are in ascending order of (country,
\* year), and rows with the same country and year are in the order the
\* records were collected in; this for the delegation exports of count.py
\* and extract_delegates.py and for the merged contributions of
\* process_all_pdfs.
C14_PresentationOrder ==
  /\ Saved => ExportInOrder
  /\ m_pc = "done" => MergedInOrder

-----------------------------------------------------------------------------
(* Properties of the country key *)

\* the letter a code point stands for, case and accent set aside; none for
\* what is no letter
BaseLetter(c) ==
  CASE c \in {"o_circ", "O_circ"}  -> <<"o">>
    [] c = "e_acute"               -> <<"e">>
    [] c = "o_stroke"              -> <<"o_stroke">>
    [] c = "fi_lig"                -> <<"f", "i">>
    [] IsUpper(c) \/ IsLower(c)    -> <<lower_char(c)>>
    [] OTHER                       -> <<>>

\* the letters of a name, case, accents and non-letters set aside
RECURSIVE Letters(_)
Letters(name) ==
  IF name = <<>> THEN <<>> ELSE BaseLetter(Head(name)) \o Letters(Tail(name))

OnlyAToZ(key) == \A k \in DOMAIN key : key[k] \in Range(LowerSeq)

\* C15: the key normalize_country returns holds only the characters a-z,
\* normalizing the key gives the key again, and the key is made of the
\* letters a-z of the name alone, case, accents and non-letter characters
\* set aside: names with the same letters get the same key, as the
\* spellings of the examples do.
C15_CountryKey ==
  key_pc = "done" =>
    /\ OnlyAToZ(key_result)
    /\ normalize_country(key_result) = key_result
    /\ key_result = SelectSeq(Letters(key_input), IsLower)
    /\ \A other \in KeyExamples :
         Letters(other) = Letters(key_input) =>
           normalize_country(other) = key_result

\* the accented spelling of the example has been given its key, which is
\* also the key of the two other spellings
C15_Witness ==
  /\ key_pc = "done"
  /\ key_input = IvoireAccented
  /\ key_result = <<"c","o","t","e","d","i","v","o","i","r","e">>
  /\ Letters(IvoireUpper) = Letters(key_input)
  /\ Letters(IvoireHyphens) = Letters(key_input)

-----------------------------------------------------------------------------
(* Properties of the filled country files *)

JoinKeyColumns == {"country_norm", "country_original"}

\* the written row r carries the country of the row d of the file, as it
\* was, and d's other columns but the contribution columns
SavedFrom(r, d) ==
  /\ r.country = d.country
  /\ \A f \in DOMAIN d \ (ContributionColumns \cup {"country", "year"}) :
       f \in DOMAIN r /\ r[f] = d[f]

\* the rows written for a file come from its rows, every row of it is
\* written, and no column of the join key is written
WrittenFrom(out, df) ==
  /\ \A k \in DOMAIN out :
       /\ DOMAIN out[k] \cap JoinKeyColumns = {}
       /\ \E j \in DOMAIN df : SavedFrom(out[k], df[j])
  /\ \A j \in DOMAIN df : \E k \in DOMAIN out : SavedFrom(out[k], df[j])

\* C16: for every file written back, each written row carries the country
\* of the row of the file it comes from, unchanged, and neither
\* country_norm nor country_original is among the written columns.
C16_NoKeyLeak ==
  \A n \in DOMAIN saved_files :
    saved_files[n].saved =>
      WrittenFrom(saved_files[n].rows, country_files[n])

-----------------------------------------------------------------------------
(* Properties of the year of a document *)

\* whether a run of exactly four digits, no digit before it nor after it,
\* starts at position k of s
NumeralAt(s, k) ==
  /\ k + 3 <= Len(s)
  /\ \A d \in 0..3 : IsDigit(s[k + d])
  /\ k > 1 => ~IsDigit(s[k - 1])
  /\ k + 4 <= Len(s) => ~IsDigit(s[k + 4])

HasNumeral(s) == \E k \in DOMAIN s : NumeralAt(s, k)

\* the first 4-digit numeral of s
FirstNumeral(s) ==
  LET k == CHOOSE j \in DOMAIN s :
             NumeralAt(s, j) /\ \A h \in 1..(j - 1) : ~NumeralAt(s, h)
  IN  SubSeq(s, k, k + 3)

\* C17: the year derived for a file is the first 4-digit numeral of the
\* file's name, the directory set aside and a longer run of digits not
\* counting as one; a name without such a numeral gives the script's
\* unknown-year value (NA, Unknown, None).
C17_YearFromFilename ==
  yr_pc = "done" =>
    IF HasNumeral(yr_file)
    THEN IF yr_prog = "combine"
         THEN yr_result = DigitsToInt(FirstNumeral(yr_file))
         ELSE yr_result = FirstNumeral(yr_file)
    ELSE yr_result = (CASE yr_prog = "count"     -> NA
                        [] yr_prog = "delegates" -> Unknown
                        [] OTHER                 -> 0)

-----------------------------------------------------------------------------
(* Properties of two runs over one folder *)

\* C19: two runs over the same documents and chunks that differ only in the
\* order in which the documents are processed write the same rows in the
\* same order, also when two documents give rows with the same country and
\* year but different values.  (Whether the save raises does not depend on
\* the order: the two runs then both write nothing.)
C19_OrderIndependent ==
  (o_pc[1] = "done" /\ o_pc[2] = "done") => o_export[1] = o_export[2]

\* the two runs write the same rows, each as many times
C19_SameRows ==
  (o_pc[1] = "done" /\ o_pc[2] = "done") =>
    BagOfSeq(o_export[1]) = BagOfSeq(o_export[2])

-----------------------------------------------------------------------------
(* Properties of the output collection *)

\* old is the beginning of new
IsPrefix(old, new) ==
  /\ Len(old) <= Len(new)
  /\ SubSeq(new, 1, Len(old)) = old

\* the document process_all_pdfs is at
MergeDoc == m_files[m_idx]

\* C23: throughout a run the output collection changes only by records
\* appended at its end: after each document what it held is an unchanged
\* prefix of what it holds, a finished document adds all its records, those
\* with a country and year already collected from another document
\* included, and the rows written at the end are as many as the records.
C23_AppendOnly ==
  /\ [][ /\ IsPrefix(all_sessions, all_sessions')
         /\ (pc = "extract" /\ pc' = "loop") =>
              all_sessions' = all_sessions \o sessions
         /\ IsPrefix(m_all, m_all')
         /\ (m_pc = "loop" /\ m_idx' # m_idx
               /\ year_in_range(extract_year_from_filename(MergeDoc.name))
               /\ MergeDoc.parsed) =>
              m_all' = m_all \o extract_contributions_data(
                                  MergeDoc.tables,
                                  extract_year_from_filename(MergeDoc.name)) ]_vars
  /\ [](Saved => Len(export) = Len(all_sessions))
  /\ []((Saved /\ prog = "delegates") => Len(details) = Len(all_sessions))
  /\ [](m_pc = "done" => BagOfSeq(merged) = BagOfSeq(m_all))

\* 2010.pdf and 2010_rev.pdf both give a record for Mali in 2010, and both
\* records are in the collection and in the merged rows
C23_Witness ==
  /\ m_pc = "done"
  /\ Len(m_files) = 2
  /\ m_files[1].name = File2010 /\ m_files[2].name = File2010r
  /\ Len(m_all) = 3 /\ Len(merged) = 3
  /\ m_all[1].country = m_all[3].country /\ m_all[1].year = m_all[3].year
  /\ m_all[1] # m_all[3]

-----------------------------------------------------------------------------
(* Properties of the text cache *)

\* the cache file of the document the step's call is for
CalledName == cache_filename(pdf_path')

\* C24 as stated: once the text of a document is in the cache, under the
\* stem of the file's name, every later call for that document returns the
\* cached text and does not invoke the document parser again; a call whose
\* parser invocation fails writes nothing to the cache.
C24_ReadThrough_AsStated ==
  [][ /\ CalledName \in DOMAIN text_cache =>
           /\ returned' = text_cache[CalledName]
           /\ ~parse_called'
      /\ (parse_called' /\ parse_result'.kind = "raise") =>
           text_cache' = text_cache ]_vars

\* got is content with every carriage return that stands directly before
\* a line feed left out and every other carriage return made a line feed,
\* and everything else kept in its place
ReadsAs(content, got) ==
  LET kept == { k \in 1..Len(content) :
                  ~(content[k] = CR /\ k < Len(content) /\ content[k + 1] = NL) }
  IN  /\ Len(got) = Cardinality(kept)
      /\ \A k \in kept :
           got[Cardinality({ j \in kept : j <= k })] =
             IF content[k] = CR THEN NL ELSE content[k]

\* C24: once the text of a document is in the cache, every later call for
\* that document that can read the cache file returns what the file reads
\* as (the cached text with a line feed for every carriage return, alone
\* or before a line feed), does not invoke the document parser and leaves
\* the cache as it is; a call that cannot read the cache file invokes the
\* parser again; a call whose parser invocation fails returns the empty
\* text and writes nothing to the cache; a call whose parser invocation
\* succeeds returns the extracted text and leaves the cache as it was or
\* with a cache file that holds the text or a beginning of it.
C24_ReadThrough ==
  [][ /\ (CalledName \in DOMAIN text_cache /\ read_ok') =>
           /\ ReadsAs(text_cache[CalledName], returned')
           /\ ~parse_called'
           /\ text_cache' = text_cache
      /\ (CalledName \in DOMAIN text_cache /\ ~read_ok') => parse_called'
      /\ (parse_called' /\ parse_result'.kind = "raise") =>
           /\ returned' = <<>>
           /\ text_cache' = text_cache
      /\ (parse_called' /\ parse_result'.kind = "results") =>
           /\ returned' = full_text_of(parse_result'.results)
           /\ \/ text_cache' = text_cache
              \/ /\ CalledName \in DOMAIN text_cache'
                 /\ IsPrefix(text_cache'[CalledName], returned')
                 /\ \A n \in DOMAIN text_cache' \ {CalledName} :
                      n \in DOMAIN text_cache /\ text_cache'[n] = text_cache[n] ]_vars

\* a call for a.pdf was given, without a parse, the beginning of the text
\* that a failed write left in a.txt
C24_TruncatedReturned ==
  /\ cache_pc = "called"
  /\ pdf_path = PathA
  /\ ~parse_called
  /\ returned = <<NL, "F">>

\* old/a.pdf is given, without a parse, what a.txt reads as: the text
\* cached for a.pdf with a line feed for each of its carriage returns, the
\* one before a line feed and the one alone
C24_Witness ==
  /\ cache_pc = "called"
  /\ pdf_path = PathOldA
  /\ ~parse_called
  /\ cache_filename(PathA) \in DOMAIN text_cache
  /\ text_cache[cache_filename(PathA)] = <<NL>> \o LnCr
  /\ returned = <<NL, NL, "A", NL>>

-----------------------------------------------------------------------------
(* Properties of the country of a record *)

\* C26: every record an extraction step produces for a chunk carries the
\* label of that chunk as its country, whatever country the inference call
\* put in the object it returned.
C26_CountryIdentity ==
  [][ (pc = "extract" /\ i' = i + 1) =>
        \A k \in (Len(sessions) + 1)..Len(sessions') :
          /\ "country" \in DOMAIN sessions'[k]
          /\ sessions'[k].country = ChunkLabel ]_vars

-----------------------------------------------------------------------------
(* Properties of the rows of the filled country files *)

\* a row of the contributions table has the key of the row d of a file
HasContribution(d) ==
  \E c \in DOMAIN contributions :
    /\ normalize_country(contributions[c].country)
         = normalize_country(astype_str(d.country))
    /\ contributions[c].year = astype_int(d.year)

\* C27: the file saved has exactly one row per row of the original file, in
\* the original order, also when the contributions table holds several rows
\* with the same normalized country and year; a row without a matching
\* contribution keeps its own fields, the three contribution fields missing.
C27_JoinPreservesRows ==
  \A n \in DOMAIN saved_files :
    saved_files[n].saved =>
      LET orig == country_files[n]
          rows == saved_files[n].rows
      IN  /\ Len(rows) = Len(orig)
          /\ \A k \in DOMAIN orig :
               /\ rows[k].attendees = orig[k].attendees
               /\ rows[k].year = astype_int(orig[k].year)
               /\ ~HasContribution(orig[k]) =>
                    \A f \in ContributionColumns : rows[k][f] = NaN

====
